---- MODULE Spec2Model ----
(***************************************************************************)
(* The connection state machine of psycopg2cffi                            *)
(* (psycopg2cffi/_impl/connection.py): one Connection object, the libpq    *)
(* transport under it, and the public operations of the connection.        *)
(*                                                                         *)
(* Every public call is one action.  A call is computed by operators that  *)
(* take the "world" w = [self, pq, sent] (the object's fields, the state   *)
(* of the transport, the commands the call has sent so far) and return a   *)
(* result [w, exc, msg, ret]: the world after the call, the exception it   *)
(* raised ("none" when it returned) and the value it returned.  What the   *)
(* transport and the server answer is drawn nondeterministically by the    *)
(* action and handed down as parameters.                                   *)
(*                                                                         *)
(* Spec is the life of one connection.  SpecAB is two connections to one   *)
(* server and the two-phase calls on them, with the transactions the       *)
(* server holds prepared.  SpecNotices is the notice buffer of one        *)
(* connection as the server's notices arrive.                              *)
(* SpecThreads is two threads that each make one call on a shared         *)
(* connection, a statement at a time, with the connection's lock.          *)
(* SpecWait is wait_select (extras.py) driving poll() on one connection.  *)
(***************************************************************************)
EXTENDS Integers, Sequences, FiniteSets, TLC

VARIABLES
    self,     \* the fields of the Connection object
    pq,       \* the libpq side: PQstatus, the reported DateStyle, releases
    phase,    \* "init" (inside __init__), "open" (returned), "failed" (raised)
    last,     \* the last public call: its name, exception, value, commands
    other,    \* a second connection to the same server: its fields, its libpq
    prepared, \* the transactions the server holds prepared
    notices,  \* Connection.notices, the buffer of the server's notices
    arrived,  \* how many notices the server has sent so far
    th,       \* the threads that share the connection, and its lock
    ws        \* a wait_select call on the connection: where its loop is

vars == <<self, pq, phase, last, other, prepared, notices, arrived, th, ws>>

\* mark is a counter without an upper limit: calls that raise it are not
\* taken beyond MaxMark.
MaxMark == 2

None == "None"
NULL == "NULL"

\* Transaction identifiers handed to the TPC calls.
Xids == {"x1", "x2"}

\* DateStyle values the server reports at startup, as character sequences.
DateStyles ==
    { <<"I","S","O",","," ","M","D","Y">>,
      <<"S","Q","L",","," ","M","D","Y">>,
      <<"I","S">>,
      <<>> }

\* default_transaction_isolation as the server is configured.
IsoDefaults == {"read committed"}

\* str.startswith
startswith(s, p) == Len(s) >= Len(p) /\ SubSeq(s, 1, Len(p)) = p

\* What PQexec gives back for a command: a result with PGRES_COMMAND_OK, a
\* result with an error status on a live connection, or a failure that
\* leaves the connection in CONNECTION_BAD.
ExecOutcomes == {"COMMAND_OK", "FATAL_ERROR", "CONNECTION_BAD"}

----------------------------------------------------------------------------
\* Results of a call.

Ok(w) == [w |-> w, exc |-> "none", msg |-> "", ret |-> None]

Return(w, v) == [w |-> w, exc |-> "none", msg |-> "", ret |-> v]

Raise(w, e, m) == [w |-> w, exc |-> e, msg |-> m, ret |-> None]

----------------------------------------------------------------------------
\* Connection.closed

closed(w) == w.self._closed \/ w.pq.status = "CONNECTION_BAD"

\* _close that releases the handles and keeps them stored.
_close_keeps_handles(w) ==
    [w EXCEPT !.self._closed = TRUE,
              !.pq.freed     = IF w.self._cancel # NULL THEN @ + 1 ELSE @,
              !.pq.finished  = IF w.self._pgconn # None THEN @ + 1 ELSE @,
              !.pq.status    = IF w.self._pgconn # None THEN "FINISHED" ELSE @]

\* Connection._close

_close(w) ==
    [w EXCEPT !.self._closed = TRUE,
              !.self._cancel = NULL,
              !.self._pgconn = None,
              !.pq.freed     = IF w.self._cancel # NULL THEN @ + 1 ELSE @,
              !.pq.finished  = IF w.self._pgconn # None THEN @ + 1 ELSE @,
              !.pq.status    = IF w.self._pgconn # None THEN "FINISHED" ELSE @]

\* Connection._create_exception: the world after the exception was built
\* (a connection in CONNECTION_BAD is closed while building it).

_create_exception(w) ==
    IF w.self._pgconn # None /\ w.pq.status = "CONNECTION_BAD"
    THEN _close(w)
    ELSE w

\* The decorators.

\* check_closed that lets every call through.
check_closed_off(w, r) == r

check_closed(w, r) ==
    IF closed(w) THEN Raise(w, "InterfaceError", "connection already closed")
    ELSE r

\* check_notrans that lets every call through.
check_notrans_off(w, r) == r

check_notrans(w, r) ==
    IF w.self.status # "READY"
    THEN Raise(w, "ProgrammingError", "not valid in transaction")
    ELSE r

\* check_tpc that lets every call through.
check_tpc_off(w, r) == r

check_tpc(w, r) ==
    IF w.self._tpc_xid # None
    THEN Raise(w, "ProgrammingError", "cannot be used during a two-phase transaction")
    ELSE r

\* check_async that lets every call through.
check_async_off(w, r) == r

check_async(w, r) ==
    IF w.self._async
    THEN Raise(w, "ProgrammingError", "cannot be used in asynchronous mode")
    ELSE r

\* The server's side of a command that succeeded: the session default of the
\* transaction isolation is written by SET and put back by RESET ALL.
ServerApply(p, command) ==
    IF /\ Len(command) = 5
       /\ SubSeq(command, 1, 4) =
              <<"SET", "default_transaction_isolation", "TO", "quote_string">>
    THEN [p EXCEPT !.iso = command[5]]
    ELSE IF \/ command = <<"SET", "default_transaction_isolation", "TO", "default">>
            \/ command = <<"ABORT; RESET ALL; SET SESSION AUTHORIZATION DEFAULT;">>
    THEN [p EXCEPT !.iso = p.iso_default]
    ELSE p

\* Connection._execute_command (no wait callback installed): PQexec of the
\* command, and an exception unless the result is PGRES_COMMAND_OK.  The
\* exception class _create_exception picks from the SQLSTATE is not modelled:
\* a failed command raises OperationalError, its default.

_execute_command(w, command, out) ==
    IF w.self._pgconn = None
    THEN Raise(w, "TypeError", "pgconn is None")
    ELSE LET w1 == [w EXCEPT !.sent = Append(@, command),
                             !.pq.status = IF out = "CONNECTION_BAD"
                                           THEN "CONNECTION_BAD" ELSE @]
         IN  IF out = "COMMAND_OK"
             THEN Ok([w1 EXCEPT !.pq = ServerApply(@, command)])
             ELSE Raise(_create_exception(w1), "OperationalError", "command failed")

\* Connection._set_guc: the value goes through util.quote_string unless it
\* is the word default.

_set_guc(w, name, value, out) ==
    _execute_command(w,
        IF value = "default"
        THEN <<"SET", name, "TO", value>>
        ELSE <<"SET", name, "TO", "quote_string", value>>,
        out)

\* _begin_transaction that sets the status before the command has succeeded.
_begin_transaction_status_first(w, out) ==
    IF w.self.status = "READY" /\ ~w.self._autocommit
    THEN _execute_command([w EXCEPT !.self.status = "BEGIN"], <<"BEGIN">>, out)
    ELSE Ok(w)

\* Connection._begin_transaction

_begin_transaction(w, out) ==
    IF w.self.status = "READY" /\ ~w.self._autocommit
    THEN LET r == _execute_command(w, <<"BEGIN">>, out)
         IN  IF r.exc = "none"
             THEN [r EXCEPT !.w.self.status = "BEGIN"]
             ELSE r
    ELSE Ok(w)

\* _commit that forgets to count the finished transaction.
_commit_no_mark(w, out) ==
    IF w.self._autocommit \/ w.self.status # "BEGIN"
    THEN Ok(w)
    ELSE LET r == _execute_command(w, <<"COMMIT">>, out)
         IN  [r EXCEPT !.w.self.status = "READY"]

\* _commit that resets the status after the command, outside any finally.
_commit_ready_on_success(w, out) ==
    IF w.self._autocommit \/ w.self.status # "BEGIN"
    THEN Ok(w)
    ELSE LET w1 == [w EXCEPT !.self._mark = @ + 1]
             r  == _execute_command(w1, <<"COMMIT">>, out)
         IN  IF r.exc = "none"
             THEN [r EXCEPT !.w.self.status = "READY"]
             ELSE r

\* Connection._commit: the status is reset in a finally clause.

_commit(w, out) ==
    IF w.self._autocommit \/ w.self.status # "BEGIN"
    THEN Ok(w)
    ELSE LET w1 == [w EXCEPT !.self._mark = @ + 1]
             r  == _execute_command(w1, <<"COMMIT">>, out)
         IN  [r EXCEPT !.w.self.status = "READY"]

\* _rollback that looks at autocommit only, not at the status.
_rollback_any_status(w, out) ==
    IF w.self._autocommit
    THEN Ok(w)
    ELSE LET w1 == [w EXCEPT !.self._mark = @ + 1]
             r  == _execute_command(w1, <<"ROLLBACK">>, out)
         IN  IF r.exc = "none"
             THEN [r EXCEPT !.w.self.status = "READY"]
             ELSE r

\* Connection._rollback

_rollback(w, out) ==
    IF w.self._autocommit \/ w.self.status # "BEGIN"
    THEN Ok(w)
    ELSE LET w1 == [w EXCEPT !.self._mark = @ + 1]
             r  == _execute_command(w1, <<"ROLLBACK">>, out)
         IN  IF r.exc = "none"
             THEN [r EXCEPT !.w.self.status = "READY"]
             ELSE r

\* Connection.commit, Connection.rollback, Connection.close

commit(w, out) ==
    check_closed(w, check_async(w, check_tpc(w, _commit(w, out))))

rollback(w, out) ==
    check_closed(w, check_async(w, check_tpc(w, _rollback(w, out))))

close(w) == check_closed(w, Ok(_close(w)))

\* reset that leaves the autocommit override and the TPC identifier alone.
reset_keeps_overrides(w, out) ==
    check_closed(w, check_async(w,
        LET r == _execute_command(w,
                     <<"ABORT; RESET ALL; SET SESSION AUTHORIZATION DEFAULT;">>, out)
        IN  IF r.exc = "none"
            THEN [r EXCEPT !.w.self.status = "READY",
                           !.w.self._mark  = @ + 1]
            ELSE r))

\* reset that forgets the TPC identifier and leaves the status alone.
reset_keeps_status(w, out) ==
    check_closed(w, check_async(w,
        LET r == _execute_command(w,
                     <<"ABORT; RESET ALL; SET SESSION AUTHORIZATION DEFAULT;">>, out)
        IN  IF r.exc = "none"
            THEN [r EXCEPT !.w.self._mark       = @ + 1,
                           !.w.self._autocommit = FALSE,
                           !.w.self._tpc_xid    = None]
            ELSE r))

\* Connection.reset

reset(w, out) ==
    check_closed(w, check_async(w,
        LET r == _execute_command(w,
                     <<"ABORT; RESET ALL; SET SESSION AUTHORIZATION DEFAULT;">>, out)
        IN  IF r.exc = "none"
            THEN [r EXCEPT !.w.self.status      = "READY",
                           !.w.self._mark       = @ + 1,
                           !.w.self._autocommit = FALSE,
                           !.w.self._tpc_xid    = None]
            ELSE r))

----------------------------------------------------------------------------
\* Two-phase commit.

\* Connection._execute_tpc_command

\* _execute_tpc_command that leaves the mark alone.
_execute_tpc_command_no_mark(w, command, xid, out) ==
    _execute_command(w, <<command, xid>>, out)

_execute_tpc_command(w, command, xid, out) ==
    LET r == _execute_command(w, <<command, xid>>, out)
    IN  IF r.exc = "none"
        THEN [r EXCEPT !.w.self._mark = @ + 1]
        ELSE r

\* Connection.tpc_begin

tpc_begin(w, xid, out) ==
    check_closed(w, check_async(w,
        IF w.self.status # "READY"
        THEN Raise(w, "ProgrammingError",
                   "tpc_begin must be called outside a transaction")
        ELSE IF w.self._autocommit
        THEN Raise(w, "ProgrammingError",
                   "tpc_begin can't be called in autocommit mode")
        ELSE LET r == _begin_transaction(w, out)
             IN  IF r.exc = "none"
                 THEN [r EXCEPT !.w.self._tpc_xid = xid]
                 ELSE r))

\* tpc_prepare that marks the transaction prepared before the command ran.
tpc_prepare_status_first(w, out) ==
    check_closed(w, check_async(w,
        IF w.self._tpc_xid = None
        THEN Raise(w, "ProgrammingError",
                   "prepare must be called inside a two-phase transaction")
        ELSE _execute_tpc_command([w EXCEPT !.self.status = "PREPARED"],
                                  "PREPARE TRANSACTION", w.self._tpc_xid, out)))

\* Connection.tpc_prepare

tpc_prepare(w, out) ==
    check_closed(w, check_async(w,
        IF w.self._tpc_xid = None
        THEN Raise(w, "ProgrammingError",
                   "prepare must be called inside a two-phase transaction")
        ELSE LET r == _execute_tpc_command(w, "PREPARE TRANSACTION",
                                           w.self._tpc_xid, out)
             IN  IF r.exc = "none"
                 THEN [r EXCEPT !.w.self.status = "PREPARED"]
                 ELSE r))

\* _finish_tpc that takes an explicit identifier in any status.
_finish_tpc_any_status(w, command, fallback, xid, out) ==
    IF xid # None
    THEN _execute_tpc_command(w, command, xid, out)
    ELSE IF w.self._tpc_xid = None
         THEN Raise(w, "ProgrammingError",
                    "tpc_commit/tpc_rollback with no parameter must be called in a two-phase transaction")
         ELSE LET r == IF w.self.status = "BEGIN"
                       THEN IF fallback = "_commit"
                            THEN _commit(w, out) ELSE _rollback(w, out)
                       ELSE IF w.self.status = "PREPARED"
                       THEN _execute_tpc_command(w, command, w.self._tpc_xid, out)
                       ELSE Raise(w, "InterfaceError",
                                  "unexpected state in tpc_commit/tpc_rollback")
              IN  IF r.exc = "none"
                  THEN [r EXCEPT !.w.self.status   = "READY",
                                 !.w.self._tpc_xid = None]
                  ELSE r

\* _finish_tpc that leaves the identifier attached after finishing the
\* connection's own transaction.
_finish_tpc_keeps_xid(w, command, fallback, xid, out) ==
    IF xid # None
    THEN IF w.self.status # "READY"
         THEN Raise(w, "ProgrammingError",
                    "tpc_commit/tpc_rollback with a xid must be called outside a transaction")
         ELSE _execute_tpc_command(w, command, xid, out)
    ELSE IF w.self._tpc_xid = None
         THEN Raise(w, "ProgrammingError",
                    "tpc_commit/tpc_rollback with no parameter must be called in a two-phase transaction")
         ELSE LET r == IF w.self.status = "BEGIN"
                       THEN IF fallback = "_commit"
                            THEN _commit(w, out) ELSE _rollback(w, out)
                       ELSE IF w.self.status = "PREPARED"
                       THEN _execute_tpc_command(w, command, w.self._tpc_xid, out)
                       ELSE Raise(w, "InterfaceError",
                                  "unexpected state in tpc_commit/tpc_rollback")
              IN  IF r.exc = "none"
                  THEN [r EXCEPT !.w.self.status = "READY"]
                  ELSE r

\* Connection._finish_tpc: fallback is "_commit" or "_rollback", xid is None
\* for the call without argument.

_finish_tpc(w, command, fallback, xid, out) ==
    IF xid # None
    THEN IF w.self.status # "READY"
         THEN Raise(w, "ProgrammingError",
                    "tpc_commit/tpc_rollback with a xid must be called outside a transaction")
         ELSE _execute_tpc_command(w, command, xid, out)
    ELSE IF w.self._tpc_xid = None
         THEN Raise(w, "ProgrammingError",
                    "tpc_commit/tpc_rollback with no parameter must be called in a two-phase transaction")
         ELSE LET r == IF w.self.status = "BEGIN"
                       THEN IF fallback = "_commit"
                            THEN _commit(w, out) ELSE _rollback(w, out)
                       ELSE IF w.self.status = "PREPARED"
                       THEN _execute_tpc_command(w, command, w.self._tpc_xid, out)
                       ELSE Raise(w, "InterfaceError",
                                  "unexpected state in tpc_commit/tpc_rollback")
              IN  IF r.exc = "none"
                  THEN [r EXCEPT !.w.self.status   = "READY",
                                 !.w.self._tpc_xid = None]
                  ELSE r

\* tpc_commit that finishes the connection's own transaction whatever
\* identifier it is given.
tpc_commit_own_only(w, xid, out) ==
    check_closed(w, check_async(w,
        _finish_tpc(w, "COMMIT PREPARED", "_commit", None, out)))

\* Connection.tpc_commit, Connection.tpc_rollback

tpc_commit(w, xid, out) ==
    check_closed(w, check_async(w,
        _finish_tpc(w, "COMMIT PREPARED", "_commit", xid, out)))

tpc_rollback(w, xid, out) ==
    check_closed(w, check_async(w,
        _finish_tpc(w, "ROLLBACK PREPARED", "_rollback", xid, out)))

----------------------------------------------------------------------------
\* Session configuration.

\* Connection._set_guc_onoff: value is "True", "False" or "default".

_set_guc_onoff(w, name, value, out) ==
    _set_guc(w, name,
             IF value = "default" THEN "default"
             ELSE IF value = "True" THEN "on" ELSE "off",
             out)

\* _isolevels, from level to name

_isolevels ==
    [l \in 0..4 |-> CASE l = 0 -> ""
                      [] l = 1 -> "read uncommitted"
                      [] l = 2 -> "read committed"
                      [] l = 3 -> "repeatable read"
                      [] l = 4 -> "serializable"]

\* set_session that applies autocommit first, before the SET commands.
set_session_autocommit_first(w, isolation_level, readonly, deferrable, autocommit, outs) ==
    check_closed(w, check_notrans(w,
        IF isolation_level # <<>>
           /\ (isolation_level[1] < 1 \/ isolation_level[1] > 4)
        THEN Raise(w, "ValueError", "isolation level must be between 1 and 4")
        ELSE
        LET w0 == IF autocommit # <<>>
                  THEN [w EXCEPT !.self._autocommit = autocommit[1]]
                  ELSE w
            r1 == IF isolation_level # <<>>
                  THEN _set_guc(w0, "default_transaction_isolation",
                                _isolevels[isolation_level[1]], outs[1])
                  ELSE Ok(w0)
            r2 == IF r1.exc # "none" THEN r1
                  ELSE IF readonly # None
                  THEN _set_guc_onoff(r1.w, "default_transaction_read_only",
                                      readonly, outs[2])
                  ELSE r1
        IN  IF r2.exc # "none" THEN r2
            ELSE IF deferrable # None
            THEN _set_guc_onoff(r2.w, "default_transaction_deferrable",
                                deferrable, outs[3])
            ELSE r2))

\* Connection.set_session.  isolation_level (an integer) and autocommit (a
\* boolean) are <<v>> when given and <<>> when not; readonly and deferrable
\* are "True", "False", "default" or None.  outs are the answers to the (at
\* most three) SET commands.

set_session(w, isolation_level, readonly, deferrable, autocommit, outs) ==
    check_closed(w, check_notrans(w,
        IF isolation_level # <<>>
           /\ (isolation_level[1] < 1 \/ isolation_level[1] > 4)
        THEN Raise(w, "ValueError", "isolation level must be between 1 and 4")
        ELSE
        LET r1 == IF isolation_level # <<>>
                  THEN _set_guc(w, "default_transaction_isolation",
                                _isolevels[isolation_level[1]], outs[1])
                  ELSE Ok(w)
            r2 == IF r1.exc # "none" THEN r1
                  ELSE IF readonly # None
                  THEN _set_guc_onoff(r1.w, "default_transaction_read_only",
                                      readonly, outs[2])
                  ELSE r1
            r3 == IF r2.exc # "none" THEN r2
                  ELSE IF deferrable # None
                  THEN _set_guc_onoff(r2.w, "default_transaction_deferrable",
                                      deferrable, outs[3])
                  ELSE r2
        IN  IF r3.exc # "none" THEN r3
            ELSE IF autocommit # <<>>
            THEN [r3 EXCEPT !.w.self._autocommit = autocommit[1]]
            ELSE r3))

\* _isolevels, from name to level
_isolevels_by_name ==
    [n \in {_isolevels[l] : l \in 0..4} |-> CHOOSE l \in 0..4 : _isolevels[l] = n]

\* What PQexec gives back for a SHOW: a result with PGRES_TUPLES_OK, a result
\* with an error status, or a failure that leaves CONNECTION_BAD.
ShowOutcomes == {"TUPLES_OK", "FATAL_ERROR", "CONNECTION_BAD"}

\* Connection._get_guc (no wait callback installed).  The one parameter read
\* is default_transaction_isolation.  The OperationalError is raised directly,
\* not through _create_exception.

_get_guc(w, name, out) ==
    IF w.self._pgconn = None
    THEN Raise(w, "TypeError", "pgconn is None")
    ELSE LET w1 == [w EXCEPT !.sent = Append(@, <<"SHOW", name>>),
                             !.pq.status = IF out = "CONNECTION_BAD"
                                           THEN "CONNECTION_BAD" ELSE @]
         IN  IF out = "TUPLES_OK"
             THEN Return(w1, w1.pq.iso)
             ELSE Raise(w1, "OperationalError", "can't fetch")

\* Connection.isolation_level (the property): ret is the level, an integer.

isolation_level(w, out) ==
    check_closed(w,
        IF w.self._autocommit
        THEN Return(w, 0)
        ELSE LET g == _get_guc(w, "default_transaction_isolation", out)
             IN  IF g.exc = "none"
                 THEN Return(g.w, _isolevels_by_name[g.ret])
                 ELSE g)

\* set_isolation_level that does not switch autocommit off for a level
\* other than 0.
set_isolation_level_keeps_autocommit(w, level, a) ==
    check_async(w,
        IF level < 0 \/ level > 4
        THEN Raise(w, "ValueError", "isolation level must be between 0 and 4")
        ELSE LET prev == isolation_level(w, a.show)
             IN  IF prev.exc # "none" THEN prev
                 ELSE IF prev.ret = level THEN Ok(prev.w)
                 ELSE LET rb == _rollback(prev.w, a.rollback)
                      IN  IF rb.exc # "none" THEN rb
                          ELSE IF level = 0
                          THEN set_session(rb.w, <<>>, None, None, <<TRUE>>,
                                           [i \in 1..3 |-> a.set])
                          ELSE set_session(rb.w, <<level>>, None, None, <<>>,
                                           [i \in 1..3 |-> a.set]))

\* Connection.set_isolation_level.  a.show, a.rollback and a.set are the
\* answers to the SHOW of the getter, to the ROLLBACK and to the SET.

set_isolation_level(w, level, a) ==
    check_async(w,
        IF level < 0 \/ level > 4
        THEN Raise(w, "ValueError", "isolation level must be between 0 and 4")
        ELSE LET prev == isolation_level(w, a.show)
             IN  IF prev.exc # "none" THEN prev
                 ELSE IF prev.ret = level THEN Ok(prev.w)
                 ELSE LET rb == _rollback(prev.w, a.rollback)
                      IN  IF rb.exc # "none" THEN rb
                          ELSE IF level = 0
                          THEN set_session(rb.w, <<>>, None, None, <<TRUE>>,
                                           [i \in 1..3 |-> a.set])
                          ELSE set_session(rb.w, <<level>>, None, None, <<FALSE>>,
                                           [i \in 1..3 |-> a.set]))

\* Connection.set_client_encoding.  same tells whether the normalized name
\* the caller gives is the encoding the connection already has; the caller
\* can give either in every state.

set_client_encoding(w, same, a) ==
    check_closed(w, check_async(w,
        IF same THEN Ok(w)
        ELSE LET rb == _rollback(w, a.rollback)
             IN  IF rb.exc # "none" THEN rb
                 ELSE _set_guc(rb.w, "client_encoding", "enc", a.set)))

\* cancel without check_tpc.
cancel_during_tpc(w, ok) ==
    check_closed(w,
        LET w1 == [w EXCEPT !.sent = Append(@, <<"PQcancel">>)]
        IN  IF w.self._cancel # NULL /\ ok
            THEN Ok(w1)
            ELSE Raise(_create_exception(w1), "OperationalError", "PQcancel"))

\* Connection.cancel: ok is whether PQcancel reports success.  The call of
\* PQcancel is logged with the commands; with no token it fails at once.

cancel(w, ok) ==
    check_closed(w, check_tpc(w,
        LET w1 == [w EXCEPT !.sent = Append(@, <<"PQcancel">>)]
        IN  IF w.self._cancel # NULL /\ ok
            THEN Ok(w1)
            ELSE Raise(_create_exception(w1), "OperationalError", "PQcancel")))

\* Xid.tpc_recover (psycopg2cffi/_impl/xid.py): the prepared transactions are
\* listed by one query, which changes nothing on the connection.

Xid_tpc_recover(w, out) ==
    IF w.self._pgconn = None
    THEN Raise(w, "TypeError", "pgconn is None")
    ELSE LET w1 == [w EXCEPT !.sent = Append(@, <<"SELECT", "pg_prepared_xacts">>),
                             !.pq.status = IF out = "CONNECTION_BAD"
                                           THEN "CONNECTION_BAD" ELSE @]
         IN  IF out = "TUPLES_OK"
             THEN Return(w1, "xids")
             ELSE Raise(_create_exception(w1), "DatabaseError", "QUERY")

\* Connection.tpc_recover

tpc_recover(w, out) ==
    check_closed(w, check_async(w, Xid_tpc_recover(w, out)))

----------------------------------------------------------------------------
\* poll().  The answers of the transport to one poll() call are a record a:
\*   hs         what PQconnectPoll reports
\*   getcancel  whether PQgetCancel gives a token
\*   sendquery  whether PQsendQuery accepts the command
\*   flush      what PQflush reports (0 flushed, 1 would block, -1 failed)
\*   consume    whether PQconsumeInput succeeds
\*   busy       what PQisBusy reports
\*   lastresult the status of the last result of the command in flight
\*   fetch      whether the consumer's fetch hook returns (FALSE: it raises)
\*   bad        whether a failing call leaves the connection CONNECTION_BAD

\* status_map of _poll_connecting
status_map ==
    [h \in {"PGRES_POLLING_OK", "PGRES_POLLING_READING", "PGRES_POLLING_WRITING",
            "PGRES_POLLING_FAILED", "PGRES_POLLING_ACTIVE"} |->
        CASE h = "PGRES_POLLING_OK"      -> "POLL_OK"
          [] h = "PGRES_POLLING_READING" -> "POLL_READ"
          [] h = "PGRES_POLLING_WRITING" -> "POLL_WRITE"
          [] h = "PGRES_POLLING_FAILED"  -> "POLL_ERROR"
          [] h = "PGRES_POLLING_ACTIVE"  -> "POLL_ERROR"]

\* The connection after a transport call failed.
Broken(w, a) ==
    IF a.bad THEN [w EXCEPT !.pq.status = "CONNECTION_BAD"] ELSE w


\* PQconnectPoll: hs is what the handshake would report; on a connection
\* that is already CONNECTION_BAD the handshake can only report the failure.
PQconnectPoll(p, hs) ==
    IF p.status = "CONNECTION_BAD" THEN "PGRES_POLLING_FAILED" ELSE hs

\* _poll_connecting that hands a failed handshake back as a value.
_poll_connecting_returns_error(w, a) ==
    IF w.self._pgconn = None
    THEN Raise(w, "TypeError", "pgconn is None")
    ELSE LET hs  == PQconnectPoll(w.pq, a.hs)
             w1  == [w EXCEPT !.pq.status =
                        IF hs = "PGRES_POLLING_FAILED" THEN "CONNECTION_BAD"
                        ELSE IF hs = "PGRES_POLLING_OK" THEN "CONNECTION_OK"
                        ELSE @]
         IN  Return(w1, status_map[hs])

\* Connection._poll_connecting

_poll_connecting(w, a) ==
    IF w.self._pgconn = None
    THEN Raise(w, "TypeError", "pgconn is None")
    ELSE LET hs  == PQconnectPoll(w.pq, a.hs)
             w1  == [w EXCEPT !.pq.status =
                        IF hs = "PGRES_POLLING_FAILED" THEN "CONNECTION_BAD"
                        ELSE IF hs = "PGRES_POLLING_OK" THEN "CONNECTION_OK"
                        ELSE @]
             res == IF hs \in DOMAIN status_map THEN status_map[hs] ELSE None
         IN  IF res = None
             THEN Return(w1, "POLL_ERROR")
             ELSE IF res = "POLL_ERROR"
             THEN Raise(_create_exception(w1), "OperationalError", "")
             ELSE Return(w1, res)

\* Connection._is_busy (the notifications it collects are not modelled)

_is_busy(w, a) ==
    IF w.self._pgconn = None
    THEN Raise(w, "TypeError", "pgconn is None")
    ELSE IF ~a.consume
    THEN Raise(Broken(w, a), "OperationalError", "PQerrorMessage")
    ELSE Return(w, a.busy)

\* Connection._poll_advance_write

_poll_advance_write(w, flush) ==
    IF flush = 0
    THEN Return([w EXCEPT !.self._async_status = "READ"], "POLL_READ")
    ELSE IF flush = 1
    THEN Return(w, "POLL_WRITE")
    ELSE IF flush = -1
    THEN Raise(_create_exception(w), "OperationalError", "")
    ELSE Return(w, "POLL_ERROR")

\* Connection._poll_advance_read with a busy transport sending the command
\* back to the flush phase.

_poll_advance_read_rewinds(w, busy) ==
    IF busy = 0
    THEN Return([w EXCEPT !.self._async_status = "DONE"], "POLL_OK")
    ELSE IF busy = 1
    THEN Return([w EXCEPT !.self._async_status = "WRITE"], "POLL_READ")
    ELSE Return(w, "POLL_ERROR")

\* Connection._poll_advance_read

_poll_advance_read(w, busy) ==
    IF busy = 0
    THEN Return([w EXCEPT !.self._async_status = "DONE"], "POLL_OK")
    ELSE IF busy = 1
    THEN Return(w, "POLL_READ")
    ELSE Return(w, "POLL_ERROR")

\* Connection._poll_query

_poll_query(w, a) ==
    IF w.self._async_status = "WRITE"
    THEN IF w.self._pgconn = None
         THEN Raise(w, "TypeError", "pgconn is None")
         ELSE _poll_advance_write(IF a.flush = -1 THEN Broken(w, a) ELSE w,
                                  a.flush)
    ELSE IF w.self._async_status \in {"READ", "DONE"}
    THEN LET b == _is_busy(w, a)
         IN  IF b.exc # "none" THEN b ELSE _poll_advance_read(b.w, b.ret)
    ELSE Return(w, "POLL_ERROR")

\* Connection._poll_setup_async

_poll_setup_async(w, a) ==
    IF w.self.status = "CONNECTING"
    THEN LET w1 == [w EXCEPT !.self._cancel =
                                 IF a.getcancel THEN "TOKEN" ELSE NULL,
                             !.pq.tokens =
                                 IF a.getcancel THEN @ + 1 ELSE @]
         IN  IF ~a.getcancel
             THEN Raise(w1, "OperationalError", "can't get cancellation key")
             ELSE
             LET w2 == [w1 EXCEPT !.self._autocommit = TRUE]
             IN  IF ~startswith(w.pq.datestyle, <<"I","S","O">>)
                 THEN LET w3 == [w2 EXCEPT !.self.status = "DATESTYLE"]
                      IN  IF a.sendquery
                          THEN Return([w3 EXCEPT
                                         !.self._async_status = "WRITE",
                                         !.sent = Append(@, <<"SET DATESTYLE TO 'ISO'">>)],
                                      "POLL_WRITE")
                          ELSE Raise(_create_exception(Broken(w3, a)),
                                     "OperationalError", "")
                 ELSE Return([w2 EXCEPT !.self.status = "READY"], "POLL_OK")
    ELSE IF w.self.status = "DATESTYLE"
    THEN LET r == _poll_query(w, a)
         IN  IF r.exc # "none" \/ r.ret # "POLL_OK"
             THEN r
             ELSE IF a.lastresult # "COMMAND_OK"
             THEN Raise(r.w, "OperationalError", "can't set datetyle to ISO")
             ELSE Return([r.w EXCEPT !.self.status = "READY"], "POLL_OK")
    ELSE Return(w, "POLL_ERROR")

\* poll that hands the result over and keeps the consumer associated.
poll_keeps_consumer(w, a) ==
    IF w.self.status = "SETUP"
    THEN Return([w EXCEPT !.self.status = "CONNECTING"], "POLL_WRITE")
    ELSE IF w.self.status = "CONNECTING"
    THEN LET res == _poll_connecting(w, a)
         IN  IF res.exc = "none" /\ res.ret = "POLL_OK" /\ w.self._async
             THEN _poll_setup_async(res.w, a)
             ELSE res
    ELSE IF w.self.status \in {"READY", "BEGIN", "PREPARED"}
    THEN LET res == _poll_query(w, a)
         IN  IF /\ res.exc = "none"
                /\ res.ret = "POLL_OK"
                /\ w.self._async
                /\ w.self._async_cursor = "alive"
             THEN Return([res.w EXCEPT !.pq.delivered = @ + 1], res.ret)
             ELSE res
    ELSE Return(w, "POLL_ERROR")

\* poll that takes every READY connection through the establishment step.
poll_ready_resets(w, a) ==
    IF w.self.status \in {"READY", "BEGIN", "PREPARED"}
    THEN LET res == _poll_query(w, a)
         IN  IF res.exc = "none" /\ res.ret = "POLL_OK"
             THEN Return([res.w EXCEPT !.self._autocommit = TRUE], res.ret)
             ELSE res
    ELSE poll_keeps_consumer(w, a)

\* Connection.poll.  _async_cursor is None, "alive" (the weak reference
\* gives the consumer) or "dead" (the consumer has been collected).
\* pq.delivered counts how often the result of the command in flight was
\* handed to its consumer.

poll(w, a) ==
    IF w.self.status = "SETUP"
    THEN Return([w EXCEPT !.self.status = "CONNECTING"], "POLL_WRITE")
    ELSE IF w.self.status = "CONNECTING"
    THEN LET res == _poll_connecting(w, a)
         IN  IF res.exc = "none" /\ res.ret = "POLL_OK" /\ w.self._async
             THEN _poll_setup_async(res.w, a)
             ELSE res
    ELSE IF w.self.status \in {"READY", "BEGIN", "PREPARED"}
    THEN LET res == _poll_query(w, a)
         IN  IF /\ res.exc = "none"
                /\ res.ret = "POLL_OK"
                /\ w.self._async
                /\ w.self._async_cursor # None
             THEN IF res.w.self._async_cursor = "dead"
                  THEN Raise(res.w, "InterfaceError",
                             "the asynchronous cursor has disappeared")
                  ELSE LET w1 == [res.w EXCEPT !.self._async_cursor = None,
                                               !.pq.delivered = @ + 1]
                       IN  IF a.fetch
                           THEN Return(w1, res.ret)
                           ELSE Raise(w1, "DatabaseError", "_pq_fetch")
             ELSE res
    ELSE Return(w, "POLL_ERROR")

\* The answers one poll() call can get, by what the call asks the transport.
NoAnswer ==
    [hs |-> "PGRES_POLLING_OK", getcancel |-> TRUE, sendquery |-> TRUE,
     flush |-> 0, consume |-> TRUE, busy |-> 0, lastresult |-> "COMMAND_OK",
     fetch |-> TRUE, bad |-> FALSE]

PollAnswers(c) ==
    IF c.status = "CONNECTING"
    THEN { [NoAnswer EXCEPT !.hs = h, !.getcancel = g, !.sendquery = s, !.bad = b] :
             h \in DOMAIN status_map, g \in BOOLEAN, s \in BOOLEAN, b \in BOOLEAN }
    ELSE IF c.status \in {"READY", "BEGIN", "PREPARED"}
    THEN IF c._async_status = "WRITE"
         THEN { [NoAnswer EXCEPT !.flush = f, !.bad = b] :
                  f \in {0, 1, -1}, b \in BOOLEAN }
         ELSE { [NoAnswer EXCEPT !.consume = k, !.busy = z, !.fetch = f, !.bad = b] :
                  k \in BOOLEAN, z \in {0, 1}, f \in BOOLEAN, b \in BOOLEAN }
    ELSE {NoAnswer}

----------------------------------------------------------------------------
\* Connection._setup

_setup(w, getcancel, out) ==
    LET w1 == [w EXCEPT !.self._cancel = IF getcancel THEN "TOKEN" ELSE NULL,
                        !.pq.tokens = IF getcancel THEN @ + 1 ELSE @]
    IN  IF ~getcancel
        THEN Raise(w1, "OperationalError", "can't get cancellation key")
        ELSE IF ~startswith(w.pq.datestyle, <<"I","S","O">>)
             THEN LET w2 == [w1 EXCEPT !.self.status = "DATESTYLE"]
                      r  == _set_guc(w2, "datestyle", "ISO", out)
                  IN  IF r.exc = "none"
                      THEN [r EXCEPT !.w.self._closed = FALSE]
                      ELSE r
             ELSE Ok([w1 EXCEPT !.self._closed = FALSE])

\* Connection._connect_sync: conn is what PQconnectdb gives back.

_connect_sync(w, conn, getcancel, out) ==
    IF conn = "NULL"
    THEN Raise(w, "OperationalError", "PQconnectdb() failed")
    ELSE LET w1 == [w EXCEPT !.self._pgconn = "pgconn", !.pq.status = conn]
         IN  IF conn = "CONNECTION_BAD"
             THEN Raise(_create_exception(w1), "OperationalError", "")
             ELSE _setup([w1 EXCEPT !.self.status = "READY"], getcancel, out)

\* _connect_async that marks the handshake as started itself.
_connect_async_sets_connecting(w, conn) ==
    IF conn = "NULL"
    THEN Raise(w, "OperationalError", "PQconnectStart() failed")
    ELSE LET w1 == [w EXCEPT !.self._pgconn = "pgconn", !.pq.status = conn,
                             !.self.status = "CONNECTING"]
         IN  IF conn = "CONNECTION_BAD"
             THEN Raise(_create_exception(w1), "OperationalError", "")
             ELSE Ok(w1)

\* Connection._connect_async: conn is what PQconnectStart gives back.

_connect_async(w, conn) ==
    IF conn = "NULL"
    THEN Raise(w, "OperationalError", "PQconnectStart() failed")
    ELSE LET w1 == [w EXCEPT !.self._pgconn = "pgconn", !.pq.status = conn]
         IN  IF conn = "CONNECTION_BAD"
             THEN Raise(_create_exception(w1), "OperationalError", "")
             ELSE Ok(w1)

----------------------------------------------------------------------------
\* The cursor side of command execution (psycopg2cffi/_impl/cursor.py).

\* Cursor.execute: the implicit BEGIN, then the caller's command.  On a
\* synchronous connection the command is run by PQexec (out2 is its answer);
\* on an asynchronous one it is handed to PQsendQuery, which takes it only on
\* an established connection with no command in flight, and the cursor
\* becomes the consumer of the result.  The command is logged with the
\* connection status it was sent in.

execute(w, out, a) ==
    IF closed(w)
    THEN Raise(w, "InterfaceError", "connection already closed")
    ELSE IF w.self._async_cursor # None
    THEN Raise(w, "ProgrammingError", "an asynchronous query is underway")
    ELSE
    LET r == _begin_transaction(w, out)
    IN  IF r.exc # "none" THEN r
        ELSE IF ~w.self._async
        THEN LET w1 == [r.w EXCEPT
                          !.sent = Append(@, <<"QUERY", r.w.self.status>>),
                          !.pq.status = IF a.lastresult = "CONNECTION_BAD"
                                        THEN "CONNECTION_BAD" ELSE @]
             IN  IF a.lastresult = "COMMAND_OK"
                 THEN Ok(w1)
                 ELSE Raise(_create_exception(w1), "DatabaseError", "QUERY")
        ELSE IF /\ a.sendquery
                /\ r.w.pq.status = "CONNECTION_OK"
                /\ r.w.self._async_status = "DONE"
        THEN Ok([r.w EXCEPT
                   !.sent = Append(@, <<"QUERY", r.w.self.status>>),
                   !.pq.delivered = 0,
                   !.self._async_status = "WRITE",
                   !.self._async_cursor = "alive"])
        ELSE Raise(_create_exception(Broken(r.w, a)), "OperationalError",
                   "PQsendQuery")

\* The answers of the transport to the caller's command.
ExecuteAnswers(c) ==
    IF c._async
    THEN { [NoAnswer EXCEPT !.sendquery = s, !.bad = b] :
             s \in BOOLEAN, b \in BOOLEAN }
    ELSE { [NoAnswer EXCEPT !.lastresult = o] : o \in ExecOutcomes }

\* The answers to a run of commands that stops at the first failure: all
\* succeed, or the k-th, one of those in given, fails in one of the two ways.
FirstFailure(given) ==
    { [i \in 1..3 |-> "COMMAND_OK"] } \cup
    { [i \in 1..3 |-> IF i = k THEN o ELSE "COMMAND_OK"] :
        k \in given, o \in ExecOutcomes \ {"COMMAND_OK"} }

\* The set_session calls made: each argument alone, the two shapes
\* set_isolation_level and the autocommit setter use, a level out of range,
\* and all arguments together.
NoArgs ==
    [isolation_level |-> <<>>, readonly |-> None, deferrable |-> None,
     autocommit |-> <<>>]

SessionCalls ==
    { [NoArgs EXCEPT !.autocommit = <<TRUE>>],
      [NoArgs EXCEPT !.autocommit = <<FALSE>>],
      [NoArgs EXCEPT !.isolation_level = <<2>>, !.autocommit = <<FALSE>>],
      [NoArgs EXCEPT !.isolation_level = <<0>>, !.autocommit = <<TRUE>>],
      [NoArgs EXCEPT !.readonly = "True"],
      [NoArgs EXCEPT !.deferrable = "default"],
      [isolation_level |-> <<3>>, readonly |-> "False", deferrable |-> "True",
       autocommit |-> <<TRUE>>] }

----------------------------------------------------------------------------
\* The state machine.

World == [self |-> self, pq |-> pq, sent |-> <<>>]

\* The state after the call named op gave the result r.
Done(op, r) ==
    /\ self' = r.w.self
    /\ pq'   = r.w.pq
    /\ last' = [op |-> op, exc |-> r.exc, msg |-> r.msg, ret |-> r.ret,
                sent |-> r.w.sent]
    /\ UNCHANGED <<other, prepared, notices, arrived, th, ws>>

\* The fields as Connection.__init__ sets them, and the transport before the
\* connection is made.
NewConnection(a) ==
    [status        |-> "SETUP",
     _closed       |-> FALSE,
     _cancel       |-> NULL,
     _tpc_xid      |-> None,
     _autocommit   |-> FALSE,
     _pgconn       |-> None,
     _mark         |-> 0,
     _async        |-> a,
     _async_status |-> "DONE",
     _async_cursor |-> None]

NewTransport(d, i) ==
    [status |-> "NONE", datestyle |-> d, tokens |-> 0, freed |-> 0,
     finished |-> 0, iso |-> i, iso_default |-> i, delivered |-> 0]

\* No wait_select call is under way.
NotWaiting == [pc |-> "idle", state |-> None, exc |-> "none", left |-> 0]

\* Connection.__init__ up to the choice of the connect path: the fields as
\* the constructor sets them, for either value of the async argument and any
\* DateStyle of the server.
Init ==
    /\ \E a \in BOOLEAN : self = NewConnection(a)
    /\ \E d \in DateStyles, i \in IsoDefaults : pq = NewTransport(d, i)
    /\ phase = "init"
    /\ last = [op |-> "none", exc |-> "none", msg |-> "", ret |-> None,
               sent |-> <<>>]
    /\ other = None
    /\ prepared = {}
    /\ notices = <<>>
    /\ arrived = 0
    /\ th = None
    /\ ws = NotWaiting

\* Connection.__init__, the connect path: the open call returns the object
\* or raises.
Connect ==
    /\ phase = "init"
    /\ \E conn \in {"NULL", "CONNECTION_BAD", "CONNECTION_OK"},
          getcancel \in BOOLEAN, out \in ExecOutcomes :
          LET r == IF ~self._async
                   THEN _connect_sync(World, conn, getcancel, out)
                   ELSE _connect_async(World,
                            IF conn = "CONNECTION_OK" THEN "CONNECTION_STARTED"
                            ELSE conn)
          IN  /\ Done("connect", r)
              /\ phase' = IF r.exc = "none" THEN "open" ELSE "failed"

Commit ==
    /\ phase = "open"
    /\ self._mark < MaxMark
    /\ \E out \in ExecOutcomes : Done("commit", commit(World, out))
    /\ UNCHANGED phase

Rollback ==
    /\ phase = "open"
    /\ self._mark < MaxMark
    /\ \E out \in ExecOutcomes : Done("rollback", rollback(World, out))
    /\ UNCHANGED phase

Close ==
    /\ phase = "open"
    /\ Done("close", close(World))
    /\ UNCHANGED phase

Reset ==
    /\ phase = "open"
    /\ self._mark < MaxMark
    /\ \E out \in ExecOutcomes : Done("reset", reset(World, out))
    /\ UNCHANGED phase

\* A cursor of the connection executes a command of the caller.
Execute ==
    /\ phase = "open"
    /\ \E out \in ExecOutcomes, a \in ExecuteAnswers(self) :
          Done("execute", execute(World, out, a))
    /\ UNCHANGED phase

\* The consumer of the command in flight is collected: the weak reference
\* the connection holds gives None from now on.
CursorDisappears ==
    /\ phase = "open"
    /\ self._async_cursor = "alive"
    /\ self' = [self EXCEPT !._async_cursor = "dead"]
    /\ UNCHANGED <<pq, phase, last, other, prepared, notices, arrived, th, ws>>

SetSession ==
    /\ phase = "open"
    /\ \E k \in SessionCalls :
       \E outs \in FirstFailure(
                     (IF k.isolation_level = <<>> THEN {} ELSE {1}) \cup
                     (IF k.readonly = None THEN {} ELSE {2}) \cup
                     (IF k.deferrable = None THEN {} ELSE {3})) :
          Done("set_session",
               set_session(World, k.isolation_level, k.readonly, k.deferrable,
                           k.autocommit, outs))
    /\ UNCHANGED phase

TpcBegin ==
    /\ phase = "open"
    /\ \E xid \in Xids, out \in ExecOutcomes :
          Done("tpc_begin", tpc_begin(World, xid, out))
    /\ UNCHANGED phase

TpcPrepare ==
    /\ phase = "open"
    /\ self._mark < MaxMark
    /\ \E out \in ExecOutcomes : Done("tpc_prepare", tpc_prepare(World, out))
    /\ UNCHANGED phase

TpcCommit ==
    /\ phase = "open"
    /\ self._mark < MaxMark
    /\ \E xid \in Xids \cup {None}, out \in ExecOutcomes :
          Done("tpc_commit", tpc_commit(World, xid, out))
    /\ UNCHANGED phase

TpcRollback ==
    /\ phase = "open"
    /\ self._mark < MaxMark
    /\ \E xid \in Xids \cup {None}, out \in ExecOutcomes :
          Done("tpc_rollback", tpc_rollback(World, xid, out))
    /\ UNCHANGED phase

\* The answers to set_isolation_level: all succeed, or one of them fails.
LevelAnswers ==
    LET ok == [show |-> "TUPLES_OK", rollback |-> "COMMAND_OK", set |-> "COMMAND_OK"]
    IN  {ok} \cup { [ok EXCEPT !.show = o] : o \in ShowOutcomes }
             \cup { [ok EXCEPT !.rollback = o] : o \in ExecOutcomes }
             \cup { [ok EXCEPT !.set = o] : o \in ExecOutcomes }

\* The level as the caller sees it printed.
repr == [l \in 0..4 |-> <<"0", "1", "2", "3", "4">>[l + 1]]

IsolationLevel ==
    /\ phase = "open"
    /\ \E out \in ShowOutcomes :
          LET r == isolation_level(World, out)
          IN  Done("isolation_level",
                   IF r.exc = "none" THEN [r EXCEPT !.ret = repr[r.ret]] ELSE r)
    /\ UNCHANGED phase

SetIsolationLevel ==
    /\ phase = "open"
    /\ self._mark < MaxMark
    /\ \E level \in 0..5, a \in LevelAnswers :
          Done("set_isolation_level", set_isolation_level(World, level, a))
    /\ UNCHANGED phase

SetClientEncoding ==
    /\ phase = "open"
    /\ self._mark < MaxMark
    /\ \E same \in BOOLEAN, a \in LevelAnswers :
          Done("set_client_encoding", set_client_encoding(World, same, a))
    /\ UNCHANGED phase

Cancel ==
    /\ phase = "open"
    /\ \E ok \in BOOLEAN : Done("cancel", cancel(World, ok))
    /\ UNCHANGED phase

TpcRecover ==
    /\ phase = "open"
    /\ \E out \in ShowOutcomes : Done("tpc_recover", tpc_recover(World, out))
    /\ UNCHANGED phase

Poll ==
    /\ phase = "open"
    /\ \E a \in PollAnswers(self) : Done("poll", poll(World, a))
    /\ UNCHANGED phase

Next ==
    \/ Connect
    \/ Poll
    \/ Execute
    \/ CursorDisappears
    \/ Commit
    \/ Rollback
    \/ Reset
    \/ SetSession
    \/ IsolationLevel
    \/ SetIsolationLevel
    \/ SetClientEncoding
    \/ Cancel
    \/ TpcRecover
    \/ TpcBegin
    \/ TpcPrepare
    \/ TpcCommit
    \/ TpcRollback
    \/ Close

Spec == Init /\ [][Next]_vars

----------------------------------------------------------------------------
\* Two connections to one server, A (self, pq) and B (other), both opened
\* synchronously, and the two-phase calls on either.  An identifier names
\* the same transaction on both connections.

\* The server's side of the two-phase commands: PREPARE TRANSACTION is
\* taken for an identifier not yet prepared, COMMIT PREPARED and ROLLBACK
\* PREPARED for a prepared one, whichever session prepared it.
ServerAccepts(prep, command) ==
    IF command[1] = "PREPARE TRANSACTION" THEN command[2] \notin prep
    ELSE IF command[1] \in {"COMMIT PREPARED", "ROLLBACK PREPARED"}
    THEN command[2] \in prep
    ELSE TRUE

\* The prepared transactions after the server carried the command out.
ServerPrepared(prep, command) ==
    IF command[1] = "PREPARE TRANSACTION" THEN prep \cup {command[2]}
    ELSE IF command[1] \in {"COMMIT PREPARED", "ROLLBACK PREPARED"}
    THEN prep \ {command[2]}
    ELSE prep

\* A connection as a synchronous open that met no failure returns it.
Opened(d, i) ==
    _connect_sync([self |-> NewConnection(FALSE), pq |-> NewTransport(d, i),
                   sent |-> <<>>],
                  "CONNECTION_OK", TRUE, "COMMAND_OK").w

InitAB ==
    /\ \E d \in DateStyles, i \in IsoDefaults :
          /\ self = Opened(d, i).self
          /\ pq = Opened(d, i).pq
    /\ \E d \in DateStyles, i \in IsoDefaults :
          other = [self |-> Opened(d, i).self, pq |-> Opened(d, i).pq]
    /\ phase = "open"
    /\ last = [op |-> "connect", by |-> "B", exc |-> "none", msg |-> "",
               ret |-> None, sent |-> <<>>]
    /\ prepared = {}
    /\ notices = <<>>
    /\ arrived = 0
    /\ th = None
    /\ ws = NotWaiting

WorldOf(c) ==
    IF c = "A" THEN World
    ELSE [self |-> other.self, pq |-> other.pq, sent |-> <<>>]

\* The state after the call named op on connection c gave the result r;
\* the call sends at most one command, and it returns only if the server
\* could accept that command.
DoneAB(c, op, r) ==
    /\ Len(r.w.sent) <= 1
    /\ (r.exc = "none" /\ r.w.sent # <<>>) => ServerAccepts(prepared, r.w.sent[1])
    /\ prepared' = IF r.exc = "none" /\ r.w.sent # <<>>
                   THEN ServerPrepared(prepared, r.w.sent[1])
                   ELSE prepared
    /\ IF c = "A"
       THEN self' = r.w.self /\ pq' = r.w.pq /\ UNCHANGED other
       ELSE other' = [self |-> r.w.self, pq |-> r.w.pq] /\ UNCHANGED <<self, pq>>
    /\ last' = [op |-> op, by |-> c, exc |-> r.exc, msg |-> r.msg,
                ret |-> r.ret, sent |-> r.w.sent]
    /\ UNCHANGED <<phase, notices, arrived, th, ws>>

TpcBeginAB ==
    /\ phase = "open"
    /\ \E c \in {"A", "B"}, xid \in Xids, out \in ExecOutcomes :
          DoneAB(c, "tpc_begin", tpc_begin(WorldOf(c), xid, out))

TpcPrepareAB ==
    \E c \in {"A", "B"}, out \in ExecOutcomes :
       /\ WorldOf(c).self._mark < MaxMark
       /\ DoneAB(c, "tpc_prepare", tpc_prepare(WorldOf(c), out))

TpcCommitAB ==
    \E c \in {"A", "B"}, xid \in Xids \cup {None}, out \in ExecOutcomes :
       /\ WorldOf(c).self._mark < MaxMark
       /\ DoneAB(c, "tpc_commit", tpc_commit(WorldOf(c), xid, out))

TpcRollbackAB ==
    \E c \in {"A", "B"}, xid \in Xids \cup {None}, out \in ExecOutcomes :
       /\ WorldOf(c).self._mark < MaxMark
       /\ DoneAB(c, "tpc_rollback", tpc_rollback(WorldOf(c), xid, out))

NextAB ==
    \/ TpcBeginAB
    \/ TpcPrepareAB
    \/ TpcCommitAB
    \/ TpcRollbackAB

SpecAB == InitAB /\ [][NextAB]_vars

----------------------------------------------------------------------------
\* The notice buffer.  The server may send a notice during any round trip;
\* libpq hands each to Connection._process_notice.  A notice is named by
\* its arrival number.

\* The entries _process_notice keeps.
NoticesKept == 50

\* Notices are not taken beyond MaxArrived.
MaxArrived == 120

\* _process_notice that refuses a notice once the buffer is full.
_process_notice_drops_newest(buffer, message) ==
    IF Len(buffer) >= NoticesKept THEN buffer ELSE Append(buffer, message)

\* Connection._process_notice

_process_notice(buffer, message) ==
    LET appended == Append(buffer, message)
        length   == Len(appended)
    IN  IF length > NoticesKept
        THEN SubSeq(appended, length - NoticesKept + 1, length)
        ELSE appended

Notice ==
    /\ arrived < MaxArrived
    /\ arrived' = arrived + 1
    /\ notices' = _process_notice(notices, arrived + 1)
    /\ UNCHANGED <<self, pq, phase, last, other, prepared, th, ws>>

NextNotices == Notice

SpecNotices == Init /\ [][NextNotices]_vars

----------------------------------------------------------------------------
\* Threads that share one connection.  A thread runs one call, a statement
\* at a time; another thread may run between any two statements and while a
\* thread is inside a libpq call (the call releases the interpreter lock).
\* A method is the table of its steps: k is what the step does, a its
\* argument, ok the step that follows, err the step that follows when the
\* test or the libpq call fails.  A thread ends at "return" or at "raise".
\* The libpq calls here either succeed or fail with the connection intact.

Threads == {"t1", "t2"}

Step(k, a, ok, err) == [k |-> k, a |-> a, ok |-> ok, err |-> err]

\* _execute_command that does not take the lock.
_execute_command_steps_unlocked(command, next) ==
    [lock   |-> Step("enter", command, "result", ""),
     result |-> Step("leave", "", next, "raise")]

\* Connection._execute_command without a wait callback: with self._lock,
\* PQexec, the exception when the result is not COMMAND_OK.

_execute_command_steps(command, next) ==
    [lock       |-> Step("acquire", "", "exec", ""),
     exec       |-> Step("enter", command, "result", ""),
     result     |-> Step("leave", "", "unlock", "unlock_exc"),
     unlock     |-> Step("release", "", next, ""),
     unlock_exc |-> Step("release", "", "raise", "")]

\* Connection._rollback

_rollback_steps ==
    [start  |-> Step("in_transaction", "", "load", "return"),
     load   |-> Step("load_mark", "", "store", ""),
     store  |-> Step("store_mark", "", "lock", ""),
     status |-> Step("set_status", "READY", "return", "")]
    @@ _execute_command_steps("ROLLBACK", "status")

\* Connection._begin_transaction

_begin_transaction_steps ==
    [start  |-> Step("ready_no_autocommit", "", "lock", "return"),
     status |-> Step("set_status", "BEGIN", "return", "")]
    @@ _execute_command_steps("BEGIN", "status")

\* _commit that keeps its hold of the lock when the command fails.
_commit_steps_leaks_on_error ==
    [start       |-> Step("in_transaction", "", "with", "return"),
     with        |-> Step("acquire", "", "load", ""),
     load        |-> Step("load_mark", "", "store", ""),
     store       |-> Step("store_mark", "", "lock", ""),
     lock        |-> Step("acquire", "", "exec", ""),
     exec        |-> Step("enter", "COMMIT", "result", ""),
     result      |-> Step("leave", "", "unlock", "unlock_exc"),
     unlock      |-> Step("release", "", "finally", ""),
     unlock_exc  |-> Step("release", "", "finally_exc", ""),
     finally     |-> Step("set_status", "READY", "end", ""),
     finally_exc |-> Step("set_status", "READY", "raise", ""),
     end         |-> Step("release", "", "return", "")]

\* Connection._commit: the test, then with self._lock: the mark, the command,
\* and the status in the finally clause on either way out.

_commit_steps ==
    [start       |-> Step("in_transaction", "", "with", "return"),
     with        |-> Step("acquire", "", "load", ""),
     load        |-> Step("load_mark", "", "store", ""),
     store       |-> Step("store_mark", "", "lock", ""),
     lock        |-> Step("acquire", "", "exec", ""),
     exec        |-> Step("enter", "COMMIT", "result", ""),
     result      |-> Step("leave", "", "unlock", "unlock_exc"),
     unlock      |-> Step("release", "", "finally", ""),
     unlock_exc  |-> Step("release", "", "finally_exc", ""),
     finally     |-> Step("set_status", "READY", "end", ""),
     finally_exc |-> Step("set_status", "READY", "end_exc", ""),
     end         |-> Step("release", "", "return", ""),
     end_exc     |-> Step("release", "", "raise", "")]

\* _get_guc that does not take the lock.
_get_guc_steps_unlocked ==
    [start  |-> Step("enter", "SHOW", "result", ""),
     result |-> Step("leave", "", "return", "raise")]

\* Connection._get_guc without a wait callback: with self._lock, PQexec of
\* the SHOW, OperationalError when the result is not TUPLES_OK.

_get_guc_steps ==
    [start      |-> Step("acquire", "", "exec", ""),
     exec       |-> Step("enter", "SHOW", "result", ""),
     result     |-> Step("leave", "", "unlock", "unlock_exc"),
     unlock     |-> Step("release", "", "return", ""),
     unlock_exc |-> Step("release", "", "raise", "")]

\* Connection._is_busy: with self._lock, PQconsumeInput (OperationalError
\* when it fails) and PQisBusy, taken as one probe.

_is_busy_steps ==
    [start      |-> Step("acquire", "", "exec", ""),
     exec       |-> Step("enter", "PQconsumeInput", "result", ""),
     result     |-> Step("leave", "", "unlock", "unlock_exc"),
     unlock     |-> Step("release", "", "return", ""),
     unlock_exc |-> Step("release", "", "raise", "")]

\* Connection.reset: with self._lock, the command, then the fields.

reset_steps ==
    [start      |-> Step("acquire", "", "lock", ""),
     lock       |-> Step("acquire", "", "exec", ""),
     exec       |-> Step("enter", "RESET", "result", ""),
     result     |-> Step("leave", "", "unlock", "unlock_exc"),
     unlock     |-> Step("release", "", "status", ""),
     unlock_exc |-> Step("release", "", "end_exc", ""),
     status     |-> Step("set_status", "READY", "load", ""),
     load       |-> Step("load_mark", "", "store", ""),
     store      |-> Step("store_mark", "", "autocommit", ""),
     autocommit |-> Step("clear_autocommit", "", "xid", ""),
     xid        |-> Step("clear_xid", "", "end", ""),
     end        |-> Step("release", "", "return", ""),
     end_exc    |-> Step("release", "", "raise", "")]

\* cancel that takes the lock around PQcancel.
cancel_steps_locked ==
    [start      |-> Step("acquire", "", "exec", ""),
     exec       |-> Step("enter", "PQcancel", "result", ""),
     result     |-> Step("leave", "", "unlock", "unlock_exc"),
     unlock     |-> Step("release", "", "return", ""),
     unlock_exc |-> Step("release", "", "raise", "")]

\* Connection.cancel on an open connection outside a two-phase transaction:
\* PQcancel, which takes no lock.

cancel_steps ==
    [start  |-> Step("enter", "PQcancel", "result", ""),
     result |-> Step("leave", "", "return", "raise")]

Program ==
    [rollback  |-> _rollback_steps,
     begin     |-> _begin_transaction_steps,
     commit    |-> _commit_steps,
     get_guc   |-> _get_guc_steps,
     is_busy   |-> _is_busy_steps,
     reset     |-> reset_steps,
     cancel    |-> cancel_steps]

Calls == DOMAIN Program

Finished(t) == th.pc[t] \in {"return", "raise"}

\* The step thread t is at.
At(t) == Program[th.op[t]][th.pc[t]]

Goes(t, label) == [th EXCEPT !.pc[t] = label]

Elsewhere == <<pq, phase, last, other, prepared, notices, arrived, ws>>

\* The tests that open _rollback and _commit, and _begin_transaction.
Test(t) ==
    /\ ~Finished(t)
    /\ At(t).k \in {"in_transaction", "ready_no_autocommit"}
    /\ LET holds == IF At(t).k = "in_transaction"
                    THEN ~self._autocommit /\ self.status = "BEGIN"
                    ELSE self.status = "READY" /\ ~self._autocommit
       IN  th' = Goes(t, IF holds THEN At(t).ok ELSE At(t).err)
    /\ UNCHANGED <<self, Elsewhere>>

\* self._mark += 1 reads the field and then writes it.
LoadMark(t) ==
    /\ ~Finished(t)
    /\ At(t).k = "load_mark"
    /\ th' = [Goes(t, At(t).ok) EXCEPT !.reg[t] = self._mark]
    /\ UNCHANGED <<self, Elsewhere>>

StoreMark(t) ==
    /\ ~Finished(t)
    /\ At(t).k = "store_mark"
    /\ self' = [self EXCEPT !._mark = th.reg[t] + 1]
    /\ th' = Goes(t, At(t).ok)
    /\ UNCHANGED Elsewhere

Assign(t) ==
    /\ ~Finished(t)
    /\ At(t).k \in {"set_status", "clear_autocommit", "clear_xid"}
    /\ self' = IF At(t).k = "set_status"
               THEN [self EXCEPT !.status = At(t).a]
               ELSE IF At(t).k = "clear_autocommit"
               THEN [self EXCEPT !._autocommit = FALSE]
               ELSE [self EXCEPT !._tpc_xid = None]
    /\ th' = Goes(t, At(t).ok)
    /\ UNCHANGED Elsewhere

\* threading.RLock: free, or held count times by its owner.
Acquire(t) ==
    /\ ~Finished(t)
    /\ At(t).k = "acquire"
    /\ th.owner \in {None, t}
    /\ th' = [Goes(t, At(t).ok) EXCEPT !.owner = t, !.count = @ + 1]
    /\ UNCHANGED <<self, Elsewhere>>

Release(t) ==
    /\ ~Finished(t)
    /\ At(t).k = "release"
    /\ th' = [Goes(t, At(t).ok) EXCEPT
                 !.owner = IF th.count = 1 THEN None ELSE @,
                 !.count = @ - 1]
    /\ UNCHANGED <<self, Elsewhere>>

\* The libpq call begins: the command goes to the server.
Enter(t) ==
    /\ ~Finished(t)
    /\ At(t).k = "enter"
    /\ th' = [Goes(t, At(t).ok) EXCEPT !.sent = Append(@, At(t).a)]
    /\ UNCHANGED <<self, Elsewhere>>

\* The libpq call returns, with success or with failure.
Leave(t) ==
    /\ ~Finished(t)
    /\ At(t).k = "leave"
    /\ \E fine \in BOOLEAN :
          th' = Goes(t, IF fine THEN At(t).ok ELSE At(t).err)
    /\ UNCHANGED <<self, Elsewhere>>

\* An open synchronous connection, in or outside a transaction, and two
\* threads each about to make one call on it.
InitThreads ==
    /\ \E st \in {"READY", "BEGIN"}, ac \in BOOLEAN :
          /\ st = "BEGIN" => ~ac
          /\ self = [Opened(<<"I","S","O">>, "read committed").self
                        EXCEPT !.status = st, !._autocommit = ac]
    /\ pq = Opened(<<"I","S","O">>, "read committed").pq
    /\ phase = "open"
    /\ last = [op |-> "connect", exc |-> "none", msg |-> "", ret |-> None,
               sent |-> <<>>]
    /\ other = None
    /\ prepared = {}
    /\ notices = <<>>
    /\ arrived = 0
    /\ ws = NotWaiting
    /\ \E ops \in [Threads -> Calls] :
          th = [op    |-> ops,
                pc    |-> [t \in Threads |-> "start"],
                reg   |-> [t \in Threads |-> 0],
                owner |-> None,
                count |-> 0,
                sent  |-> <<>>]

NextThreads ==
    \E t \in Threads :
        \/ Test(t)
        \/ LoadMark(t)
        \/ StoreMark(t)
        \/ Assign(t)
        \/ Acquire(t)
        \/ Release(t)
        \/ Enter(t)
        \/ Leave(t)

SpecThreads == InitThreads /\ [][NextThreads]_vars

----------------------------------------------------------------------------
\* extras.wait_select: the loop that polls the connection and waits for its
\* socket.  ws.pc is where the loop is, ws.state the value poll() gave it
\* last, ws.exc the exception the call ended with, ws.left how often the
\* transport may still answer "not yet" (the handshake still reading or
\* writing, the flush would block, the connection busy) during this call.

MaxStalls == 2

\* The answer a keeps poll() where it is.
Stalls(c, a) ==
    IF c.status = "CONNECTING"
    THEN a.hs \in {"PGRES_POLLING_READING", "PGRES_POLLING_WRITING"}
    ELSE IF c.status \in {"READY", "BEGIN", "PREPARED"}
    THEN IF c._async_status = "WRITE" THEN a.flush = 1 ELSE a.busy = 1
    ELSE FALSE

\* wait_select that takes READ for the end of the wait.
wait_select_returns_on_read(r, left) ==
    IF r.exc # "none"
    THEN [pc |-> "raised", state |-> None, exc |-> r.exc, left |-> left]
    ELSE IF r.ret \in {"POLL_OK", "POLL_READ"}
    THEN [pc |-> "returned", state |-> r.ret, exc |-> "none", left |-> left]
    ELSE IF r.ret = "POLL_WRITE"
    THEN [pc |-> "select_write", state |-> r.ret, exc |-> "none", left |-> left]
    ELSE [pc |-> "raised", state |-> r.ret, exc |-> "OperationalError",
          left |-> left]

\* wait_select, one turn of its loop after conn.poll() gave the result r: an
\* exception of poll() goes up to the caller, OK ends the loop, READ and
\* WRITE go to select(), any other value raises OperationalError.

wait_select(r, left) ==
    IF r.exc # "none"
    THEN [pc |-> "raised", state |-> None, exc |-> r.exc, left |-> left]
    ELSE IF r.ret = "POLL_OK"
    THEN [pc |-> "returned", state |-> r.ret, exc |-> "none", left |-> left]
    ELSE IF r.ret = "POLL_READ"
    THEN [pc |-> "select_read", state |-> r.ret, exc |-> "none", left |-> left]
    ELSE IF r.ret = "POLL_WRITE"
    THEN [pc |-> "select_write", state |-> r.ret, exc |-> "none", left |-> left]
    ELSE [pc |-> "raised", state |-> r.ret, exc |-> "OperationalError",
          left |-> left]

\* The caller calls wait_select(conn).
WaitCall ==
    /\ phase = "open"
    /\ ws.pc \in {"idle", "returned", "raised"}
    /\ ws' = [pc |-> "poll", state |-> None, exc |-> "none",
              left |-> MaxStalls]
    /\ UNCHANGED <<self, pq, phase, last, other, prepared, notices, arrived, th>>

\* state = conn.poll() and the branch on it.
WaitPoll ==
    /\ ws.pc = "poll"
    /\ \E a \in PollAnswers(self) :
          /\ Stalls(self, a) => ws.left > 0
          /\ LET r == poll(World, a)
             IN  /\ self' = r.w.self
                 /\ pq'   = r.w.pq
                 /\ last' = [op |-> "poll", exc |-> r.exc, msg |-> r.msg,
                             ret |-> r.ret, sent |-> r.w.sent]
                 /\ ws' = wait_select(r, IF Stalls(self, a)
                                         THEN ws.left - 1 ELSE ws.left)
    /\ UNCHANGED <<phase, other, prepared, notices, arrived, th>>

\* select() returns: the socket is readable, or writable.
WaitReady ==
    /\ ws.pc \in {"select_read", "select_write"}
    /\ ws' = [ws EXCEPT !.pc = "poll"]
    /\ UNCHANGED <<self, pq, phase, last, other, prepared, notices, arrived, th>>

\* The caller starts a command between two waits.
ExecuteIdle ==
    /\ ws.pc \in {"idle", "returned", "raised"}
    /\ Execute

NextWait ==
    \/ Connect
    \/ ExecuteIdle
    \/ CursorDisappears
    \/ WaitCall
    \/ WaitPoll
    \/ WaitReady

\* The thread in wait_select goes on, and the socket it waits for becomes
\* ready.
SpecWait ==
    /\ Init
    /\ [][NextWait]_vars
    /\ WF_vars(WaitPoll)
    /\ WF_vars(WaitReady)

----------------------------------------------------------------------------
\* The claims.

Established == {"READY", "BEGIN", "PREPARED"}

\* C1: whatever DateStyle the server reports, a synchronous open that
\* returned leaves the status READY, and the status of an open synchronous
\* connection is always one of READY, BEGIN, PREPARED.
C1_SyncOpenEstablished ==
    (phase = "open" /\ ~self._async) =>
        /\ self.status \in Established
        /\ last.op = "connect" => self.status = "READY"

\* C2: on an asynchronous connection every poll() that raises nothing takes
\* one step of SETUP -> (WRITE) -> CONNECTING -> {READ|WRITE}* -> OK, with a
\* DATESTYLE round trip before READY when the DateStyle does not start with
\* ISO: READY is entered with poll() reporting OK, from CONNECTING (ISO) or
\* from DATESTYLE (not ISO).  In DATESTYLE the steps are those taken while
\* the command that forces the date style is in flight (it was sent).
C2_AsyncEstablishmentSteps ==
    [][ ( /\ phase = "open"
          /\ self._async
          /\ self.status \in {"SETUP", "CONNECTING", "DATESTYLE"}
          /\ self.status = "DATESTYLE" => self._async_status # "DONE"
          /\ last'.op = "poll"
          /\ last'.exc = "none" )
        =>
        LET iso == startswith(pq.datestyle, <<"I","S","O">>)
        IN  \/ /\ self.status = "SETUP"
               /\ self'.status = "CONNECTING"
               /\ last'.ret = "POLL_WRITE"
            \/ /\ self.status = "CONNECTING"
               /\ self'.status = "CONNECTING"
               /\ last'.ret \in {"POLL_READ", "POLL_WRITE"}
            \/ /\ self.status = "CONNECTING"
               /\ iso
               /\ self'.status = "READY"
               /\ last'.ret = "POLL_OK"
            \/ /\ self.status = "CONNECTING"
               /\ ~iso
               /\ self'.status = "DATESTYLE"
               /\ last'.ret = "POLL_WRITE"
            \/ /\ self.status = "DATESTYLE"
               /\ self'.status = "DATESTYLE"
               /\ last'.ret \in {"POLL_READ", "POLL_WRITE"}
            \/ /\ self.status = "DATESTYLE"
               /\ self'.status = "READY"
               /\ last'.ret = "POLL_OK"
      ]_vars

\* C3, as claimed: the asynchronous open returns a connection whose status
\* is CONNECTING.
C3_AsyncOpenConnecting ==
    (phase = "open" /\ self._async /\ last.op = "connect") =>
        self.status = "CONNECTING"

\* C3, amended: the asynchronous open returns a connection whose status is
\* SETUP, with the handshake started and nothing else set up.
C3_AsyncOpenSetup ==
    (phase = "open" /\ self._async /\ last.op = "connect") =>
        /\ self.status = "SETUP"
        /\ self._pgconn # None
        /\ pq.status = "CONNECTION_STARTED"
        /\ ~self._closed

C3_Witness ==
    /\ phase = "open"
    /\ self._async
    /\ last.op = "connect"
    /\ self.status = "SETUP"

\* C4: in status CONNECTING, a poll() to which the handshake reports failure
\* raises and leaves the status CONNECTING.
C4_FailedHandshakeKeepsStatus ==
    (phase = "open" /\ self.status = "CONNECTING") =>
        \A a \in PollAnswers(self) :
            a.hs \in {"PGRES_POLLING_FAILED", "PGRES_POLLING_ACTIVE"} =>
                LET r == poll(World, a)
                IN  /\ r.exc # "none"
                    /\ r.w.self.status = "CONNECTING"

C4_Witness ==
    /\ phase = "open"
    /\ last.op = "poll"
    /\ last.exc = "OperationalError"
    /\ self.status = "CONNECTING"
    /\ self._closed
    /\ pq.finished = 1

\* C5: poll() never hands back ERROR as a value: whenever it returns, the
\* value is one of OK, READ, WRITE.
C5_PollNeverReturnsError ==
    (last.op = "poll" /\ last.exc = "none") =>
        last.ret \in {"POLL_OK", "POLL_READ", "POLL_WRITE"}

\* C6: on an open connection, the implicit begin in status READY with
\* autocommit off sends BEGIN as the first command and returns with status
\* BEGIN (the caller's command follows the return); if BEGIN fails it raises
\* with the status still READY; with autocommit on or in any other status it
\* sends nothing and changes nothing.
C6_ImplicitBegin ==
    (phase = "open" /\ ~closed(World)) =>
        \A out \in ExecOutcomes :
            LET r == _begin_transaction(World, out)
            IN  IF self.status = "READY" /\ ~self._autocommit
                THEN /\ r.w.sent = << <<"BEGIN">> >>
                     /\ out = "COMMAND_OK" =>
                            r.exc = "none" /\ r.w.self.status = "BEGIN"
                     /\ out # "COMMAND_OK" =>
                            r.exc # "none" /\ r.w.self.status = "READY"
                ELSE /\ r.w.sent = <<>>
                     /\ r.exc = "none"
                     /\ r.w.self = self

C6_Witness ==
    /\ phase = "open"
    /\ last.op = "execute"
    /\ last.exc = "none"
    /\ last.sent = << <<"BEGIN">>, <<"QUERY", "BEGIN">> >>
    /\ self.status = "BEGIN"

\* C7: on a synchronous open connection with no TPC identifier, autocommit
\* off and status BEGIN, a commit() (rollback()) whose command succeeds sends
\* exactly the one COMMIT (ROLLBACK), leaves status READY and raises mark by
\* exactly 1.
C7_CommitEndsTransaction ==
    ( /\ phase = "open"
      /\ ~closed(World)
      /\ ~self._async
      /\ self._tpc_xid = None
      /\ ~self._autocommit
      /\ self.status = "BEGIN" ) =>
        LET c == commit(World, "COMMAND_OK")
            r == rollback(World, "COMMAND_OK")
        IN  /\ c.exc = "none"
            /\ c.w.sent = << <<"COMMIT">> >>
            /\ c.w.self = [self EXCEPT !.status = "READY", !._mark = @ + 1]
            /\ r.exc = "none"
            /\ r.w.sent = << <<"ROLLBACK">> >>
            /\ r.w.self = [self EXCEPT !.status = "READY", !._mark = @ + 1]

C7_Witness ==
    /\ phase = "open"
    /\ ~self._async
    /\ last.op = "commit"
    /\ last.exc = "none"
    /\ last.sent = << <<"COMMIT">> >>
    /\ self.status = "READY"
    /\ self._mark = 1

\* C8: with autocommit on, or in a status other than BEGIN, commit() and
\* rollback() send no command and leave every field of the connection
\* (status, mark, autocommit, the TPC identifier) as it was; unless the call
\* is rejected (closed, asynchronous, TPC identifier attached) it returns
\* normally.
C8_CommitNoOp ==
    (phase = "open" /\ (self._autocommit \/ self.status # "BEGIN")) =>
        \A out \in ExecOutcomes :
            LET c == commit(World, out)
                r == rollback(World, out)
                rejected == closed(World) \/ self._async \/ self._tpc_xid # None
            IN  /\ c.w.sent = <<>> /\ c.w.self = self /\ c.w.pq = pq
                /\ r.w.sent = <<>> /\ r.w.self = self /\ r.w.pq = pq
                /\ ~rejected => c.exc = "none" /\ r.exc = "none"

C8_Witness ==
    /\ phase = "open"
    /\ ~self._async
    /\ self._autocommit
    /\ last.op = "rollback"
    /\ last.exc = "none"
    /\ last.sent = <<>>

\* C9: commit() and rollback() on a connection that is closed, asynchronous
\* or has a TPC identifier attached raise InterfaceError (closed) or
\* ProgrammingError, send no command and change nothing.
C9_CommitRejected ==
    (phase = "open"
       /\ (closed(World) \/ self._async \/ self._tpc_xid # None)) =>
        \A out \in ExecOutcomes :
            LET c == commit(World, out)
                r == rollback(World, out)
                e == IF closed(World) THEN "InterfaceError" ELSE "ProgrammingError"
            IN  /\ c.exc = e /\ c.w.sent = <<>> /\ c.w.self = self /\ c.w.pq = pq
                /\ r.exc = e /\ r.w.sent = <<>> /\ r.w.self = self /\ r.w.pq = pq

C9_Witness ==
    /\ phase = "open"
    /\ ~closed(World)
    /\ ~self._async
    /\ self._tpc_xid # None
    /\ self.status = "BEGIN"
    /\ last.op = "commit"
    /\ last.exc = "ProgrammingError"
    /\ last.sent = <<>>

\* C10: close() is idempotent: every close() call, also one on a connection
\* that is already closed, returns without error and leaves the connection
\* closed with the cancel token and the transport handle released.
C10_CloseIdempotent ==
    last.op = "close" =>
        /\ last.exc = "none"
        /\ self._closed
        /\ self._cancel = NULL
        /\ self._pgconn = None

----------------------------------------------------------------------------
\* The results of every command-issuing operation in the world w, for every
\* answer of the transport.
CommandResults(w) ==
    { commit(w, out) : out \in ExecOutcomes } \cup
    { rollback(w, out) : out \in ExecOutcomes } \cup
    { reset(w, out) : out \in ExecOutcomes } \cup
    { set_session(w, k.isolation_level, k.readonly, k.deferrable,
                  k.autocommit, outs) :
        k \in SessionCalls, outs \in FirstFailure({1, 2, 3}) } \cup
    { cancel(w, ok) : ok \in BOOLEAN } \cup
    { tpc_begin(w, xid, out) : xid \in Xids, out \in ExecOutcomes } \cup
    { tpc_prepare(w, out) : out \in ExecOutcomes } \cup
    { tpc_commit(w, xid, out) : xid \in Xids \cup {None}, out \in ExecOutcomes } \cup
    { tpc_rollback(w, xid, out) : xid \in Xids \cup {None}, out \in ExecOutcomes } \cup
    { tpc_recover(w, out) : out \in ShowOutcomes } \cup
    { isolation_level(w, out) : out \in ShowOutcomes }

\* C11: a closed connection stays closed in every later state, and on a
\* closed connection each of commit, rollback, reset, set_session, cancel,
\* tpc_begin, tpc_prepare, tpc_commit, tpc_rollback, tpc_recover and the read
\* of isolation_level raises InterfaceError 'connection already closed',
\* sends no command and leaves the connection as it was.
C11_ClosedStaysClosed ==
    /\ [][closed(World) => closed(World)']_vars
    /\ [](closed(World) =>
             \A r \in CommandResults(World) :
                /\ r.exc = "InterfaceError"
                /\ r.msg = "connection already closed"
                /\ r.w = World)

\* A tpc_recover call was turned away on a connection closed before it.
C11_Witness ==
    /\ phase = "open"
    /\ closed(World)
    /\ last.op = "tpc_recover"
    /\ last.exc = "InterfaceError"
    /\ last.msg = "connection already closed"
    /\ last.sent = <<>>

\* C12: a reset() that returns leaves the status READY, autocommit false, no
\* TPC identifier attached and mark one higher than before, whatever the
\* status, the identifier and autocommit were; a reset() that raises leaves
\* these four fields as they were.
C12_Reset ==
    phase = "open" =>
        \A out \in ExecOutcomes :
           LET r == reset(World, out)
           IN  IF r.exc = "none"
               THEN /\ r.w.self.status = "READY"
                    /\ r.w.self._autocommit = FALSE
                    /\ r.w.self._tpc_xid = None
                    /\ r.w.self._mark = self._mark + 1
               ELSE /\ r.w.self.status = self.status
                    /\ r.w.self._autocommit = self._autocommit
                    /\ r.w.self._tpc_xid = self._tpc_xid
                    /\ r.w.self._mark = self._mark

\* reset() has returned on a connection that had finished a transaction
\* before: the fields are as the claim says.
C12_Witness ==
    /\ phase = "open"
    /\ last.op = "reset"
    /\ last.exc = "none"
    /\ last.sent = << <<"ABORT; RESET ALL; SET SESSION AUTHORIZATION DEFAULT;">> >>
    /\ self.status = "READY"
    /\ ~self._autocommit
    /\ self._tpc_xid = None
    /\ self._mark >= 2

\* The server-side options a set_session call gives.
Given(k) ==
    (IF k.isolation_level = <<>> THEN {} ELSE {1}) \cup
    (IF k.readonly = None THEN {} ELSE {2}) \cup
    (IF k.deferrable = None THEN {} ELSE {3})

\* C13 as stated: set_session is accepted only in status READY; in BEGIN or
\* PREPARED it raises ProgrammingError, sends no command and leaves
\* autocommit alone; an accepted call sends one SET per server-side option
\* and none for autocommit, and a call in which a SET fails leaves
\* autocommit as it was.
C13_SetSession ==
    phase = "open" =>
        \A k \in SessionCalls : \A outs \in FirstFailure(Given(k)) :
           LET r == set_session(World, k.isolation_level, k.readonly,
                                k.deferrable, k.autocommit, outs)
           IN  /\ r.exc = "none" => self.status = "READY"
               /\ self.status \in {"BEGIN", "PREPARED"} =>
                     /\ r.exc = "ProgrammingError"
                     /\ r.w = World
               /\ r.exc = "none" =>
                     /\ Len(r.w.sent) = Cardinality(Given(k))
                     /\ \A i \in 1..Len(r.w.sent) : r.w.sent[i][1] = "SET"
                     /\ k.autocommit # <<>> =>
                            r.w.self._autocommit = k.autocommit[1]
               /\ r.exc # "none" => r.w.self._autocommit = self._autocommit

\* C13, on a connection that is not closed: the same, where a closed
\* connection in BEGIN or PREPARED is turned away with InterfaceError.
C13_SetSessionNotClosed ==
    phase = "open" =>
        \A k \in SessionCalls : \A outs \in FirstFailure(Given(k)) :
           LET r == set_session(World, k.isolation_level, k.readonly,
                                k.deferrable, k.autocommit, outs)
           IN  /\ r.exc = "none" => self.status = "READY"
               /\ self.status \in {"BEGIN", "PREPARED"} =>
                     /\ r.exc = IF closed(World) THEN "InterfaceError"
                                ELSE "ProgrammingError"
                     /\ r.w = World
               /\ r.exc = "none" =>
                     /\ Len(r.w.sent) = Cardinality(Given(k))
                     /\ \A i \in 1..Len(r.w.sent) : r.w.sent[i][1] = "SET"
                     /\ k.autocommit # <<>> =>
                            r.w.self._autocommit = k.autocommit[1]
               /\ r.exc # "none" => r.w.self._autocommit = self._autocommit

\* set_session(isolation_level, readonly, deferrable, autocommit=True) was
\* accepted, its third SET failed and autocommit is still off.
C13_Witness ==
    /\ phase = "open"
    /\ last.op = "set_session"
    /\ last.exc = "OperationalError"
    /\ Len(last.sent) = 3
    /\ self.status = "READY"
    /\ ~self._autocommit

\* The commands of a call that read or write a configuration parameter.
GucTrips(sent) == { i \in 1..Len(sent) : sent[i][1] \in {"SHOW", "SET"} }

\* The connection after a call, the log of commands emptied for the next.
After(r) == [r.w EXCEPT !.sent = <<>>]

\* C14 as stated: after a set_isolation_level(L) that returned, for L in
\* 0..4 and from any level, the getter gives L, and setting L again changes
\* nothing and sends no SET; for L = 0 neither the set nor the get after it
\* sends a SHOW or a SET.
C14_SetGetLevel ==
    phase = "open" =>
        \A L \in 0..4 : \A a \in LevelAnswers :
           LET r == set_isolation_level(World, L, a)
               g == isolation_level(After(r), "TUPLES_OK")
           IN  r.exc = "none" =>
                 /\ g.exc = "none" /\ g.ret = L
                 /\ \A b \in {c \in LevelAnswers : c.show = "TUPLES_OK"} :
                       LET r2 == set_isolation_level(After(r), L, b)
                       IN  /\ r2.exc = "none"
                           /\ r2.w.self = r.w.self /\ r2.w.pq = r.w.pq
                           /\ \A i \in GucTrips(r2.w.sent) : r2.w.sent[i][1] # "SET"
                 /\ L = 0 => GucTrips(r.w.sent) = {} /\ GucTrips(g.w.sent) = {}

\* C14, with the set to level 0 reading the level it replaces: the same,
\* but for L = 0 the set sends no SET (it sends the SHOW of the getter
\* unless autocommit was on already), and the get after it sends nothing.
C14_SetGetLevelShow ==
    phase = "open" =>
        \A L \in 0..4 : \A a \in LevelAnswers :
           LET r == set_isolation_level(World, L, a)
               g == isolation_level(After(r), "TUPLES_OK")
           IN  r.exc = "none" =>
                 /\ g.exc = "none" /\ g.ret = L
                 /\ \A b \in {c \in LevelAnswers : c.show = "TUPLES_OK"} :
                       LET r2 == set_isolation_level(After(r), L, b)
                       IN  /\ r2.exc = "none"
                           /\ r2.w.self = r.w.self /\ r2.w.pq = r.w.pq
                           /\ \A i \in GucTrips(r2.w.sent) : r2.w.sent[i][1] # "SET"
                 /\ L = 0 =>
                       /\ \A i \in GucTrips(r.w.sent) : r.w.sent[i][1] = "SHOW"
                       /\ self._autocommit => r.w.sent = <<>>
                       /\ ~self._autocommit =>
                             r.w.sent[1] = <<"SHOW", "default_transaction_isolation">>
                       /\ g.w.sent = <<>>

\* set_isolation_level(0) has returned on a connection that was not in
\* autocommit: it read the level with SHOW, and the getter now gives 0
\* without a command.
C14_Witness ==
    /\ phase = "open"
    /\ last.op = "set_isolation_level"
    /\ last.exc = "none"
    /\ last.sent = << <<"SHOW", "default_transaction_isolation">> >>
    /\ self._autocommit
    /\ isolation_level(World, "TUPLES_OK").ret = 0
    /\ isolation_level(World, "TUPLES_OK").w.sent = <<>>

\* C15 as stated: with a TPC identifier attached, cancel() raises
\* ProgrammingError, PQcancel is not called and nothing changes.
C15_CancelDuringTpc ==
    (phase = "open" /\ self._tpc_xid # None) =>
        \A ok \in BOOLEAN :
           LET r == cancel(World, ok)
           IN  /\ r.exc = "ProgrammingError"
               /\ r.w = World

\* C15, on a connection that is not closed: with a TPC identifier attached
\* cancel() raises ProgrammingError (InterfaceError if the connection is
\* closed), PQcancel is not called and nothing changes.
C15_CancelDuringTpcNotClosed ==
    (phase = "open" /\ self._tpc_xid # None) =>
        \A ok \in BOOLEAN :
           LET r == cancel(World, ok)
           IN  /\ r.exc = IF closed(World) THEN "InterfaceError"
                          ELSE "ProgrammingError"
               /\ r.w = World

\* cancel() was refused inside a prepared two-phase transaction.
C15_Witness ==
    /\ phase = "open"
    /\ self._tpc_xid # None
    /\ self.status = "PREPARED"
    /\ last.op = "cancel"
    /\ last.exc = "ProgrammingError"
    /\ last.sent = <<>>

\* C16: a tpc_begin(xid) call made inside a transaction, with autocommit on
\* or with a TPC identifier still attached raises, sends no BEGIN and leaves
\* the attached identifier as it was (an attached identifier is never
\* overwritten); any other tpc_begin call that returns has sent BEGIN, set
\* the status BEGIN and recorded the identifier.
C16_TpcBeginNeverOverwrites ==
    [][TpcBegin =>
         IF self.status # "READY" \/ self._autocommit \/ self._tpc_xid # None
         THEN /\ last'.exc # "none"
              /\ last'.sent = <<>>
              /\ self'._tpc_xid = self._tpc_xid
         ELSE last'.exc = "none" =>
                /\ last'.sent = << <<"BEGIN">> >>
                /\ self'.status = "BEGIN"
                /\ self'._tpc_xid \in Xids]_vars

\* C17 as stated: tpc_prepare() without an attached identifier raises
\* ProgrammingError and changes nothing; with one, a call that returns has
\* sent PREPARE TRANSACTION for that identifier, set the status PREPARED and
\* kept the identifier, and a call whose command failed leaves status and
\* identifier as they were.
C17_TpcPrepare ==
    phase = "open" =>
        \A out \in ExecOutcomes :
           LET r == tpc_prepare(World, out)
           IN  IF self._tpc_xid = None
               THEN /\ r.exc = "ProgrammingError"
                    /\ r.w = World
               ELSE IF r.exc = "none"
               THEN /\ r.w.sent = << <<"PREPARE TRANSACTION", self._tpc_xid>> >>
                    /\ r.w.self.status = "PREPARED"
                    /\ r.w.self._tpc_xid = self._tpc_xid
               ELSE /\ r.w.self.status = self.status
                    /\ r.w.self._tpc_xid = self._tpc_xid

\* C17, with the closed connection told apart: the same, where a closed
\* connection without identifier is turned away with InterfaceError.
C17_TpcPrepareNotClosed ==
    phase = "open" =>
        \A out \in ExecOutcomes :
           LET r == tpc_prepare(World, out)
           IN  IF self._tpc_xid = None
               THEN /\ r.exc = IF closed(World) THEN "InterfaceError"
                               ELSE "ProgrammingError"
                    /\ r.w = World
               ELSE IF r.exc = "none"
               THEN /\ r.w.sent = << <<"PREPARE TRANSACTION", self._tpc_xid>> >>
                    /\ r.w.self.status = "PREPARED"
                    /\ r.w.self._tpc_xid = self._tpc_xid
               ELSE /\ r.w.self.status = self.status
                    /\ r.w.self._tpc_xid = self._tpc_xid

\* tpc_prepare() has returned: the transaction of the attached identifier
\* is prepared.
C17_Witness ==
    /\ phase = "open"
    /\ last.op = "tpc_prepare"
    /\ last.exc = "none"
    /\ self._tpc_xid \in Xids
    /\ last.sent = << <<"PREPARE TRANSACTION", self._tpc_xid>> >>
    /\ self.status = "PREPARED"

\* tpc_commit() and tpc_rollback() without argument, with the commands they
\* send in status BEGIN and in status PREPARED.
FinishOwn(w, out) ==
    { [r |-> tpc_commit(w, None, out), plain |-> "COMMIT",
       prepared |-> "COMMIT PREPARED"],
      [r |-> tpc_rollback(w, None, out), plain |-> "ROLLBACK",
       prepared |-> "ROLLBACK PREPARED"] }

FinishGiven(w, xid, out) ==
    { [r |-> tpc_commit(w, xid, out), command |-> "COMMIT PREPARED"],
      [r |-> tpc_rollback(w, xid, out), command |-> "ROLLBACK PREPARED"] }

\* C19 as stated: tpc_commit(xid) / tpc_rollback(xid) is accepted only in
\* status READY; in BEGIN or PREPARED it raises ProgrammingError and sends no
\* command; an accepted call sends COMMIT PREPARED / ROLLBACK PREPARED for
\* the given identifier and leaves the status and the attached identifier
\* of the connection as they were.
C19_FinishGivenXid ==
    phase = "open" =>
        \A xid \in Xids : \A out \in ExecOutcomes :
        \A f \in FinishGiven(World, xid, out) :
           /\ self.status # "READY" => f.r.exc # "none" /\ f.r.w.sent = <<>>
           /\ self.status \in {"BEGIN", "PREPARED"} =>
                 f.r.exc = "ProgrammingError"
           /\ (self.status = "READY" /\ ~closed(World) /\ ~self._async) =>
                 /\ f.r.w.sent = << <<f.command, xid>> >>
                 /\ out = "COMMAND_OK" => f.r.exc = "none"
                 /\ f.r.w.self.status = self.status
                 /\ f.r.w.self._tpc_xid = self._tpc_xid

\* C19, with the closed connection told apart: the same, where a closed
\* connection in BEGIN or PREPARED is turned away with InterfaceError.
C19_FinishGivenXidNotClosed ==
    phase = "open" =>
        \A xid \in Xids : \A out \in ExecOutcomes :
        \A f \in FinishGiven(World, xid, out) :
           /\ self.status # "READY" => f.r.exc # "none" /\ f.r.w.sent = <<>>
           /\ self.status \in {"BEGIN", "PREPARED"} =>
                 f.r.exc = IF closed(World) THEN "InterfaceError"
                           ELSE "ProgrammingError"
           /\ (self.status = "READY" /\ ~closed(World) /\ ~self._async) =>
                 /\ f.r.w.sent = << <<f.command, xid>> >>
                 /\ out = "COMMAND_OK" => f.r.exc = "none"
                 /\ f.r.w.self.status = self.status
                 /\ f.r.w.self._tpc_xid = self._tpc_xid

\* tpc_commit(xid) has returned on a connection in READY: COMMIT PREPARED
\* went out for the identifier and the connection is as it was.
C19_Witness ==
    /\ phase = "open"
    /\ last.op = "tpc_commit"
    /\ last.exc = "none"
    /\ \E xid \in Xids : last.sent = << <<"COMMIT PREPARED", xid>> >>
    /\ self.status = "READY"
    /\ self._tpc_xid = None
    /\ self._mark = 1

\* Connection A has prepared the transaction x, the server holds it, and
\* connection B is usable and in status READY.
PreparedByA(x) ==
    /\ self.status = "PREPARED"
    /\ self._tpc_xid = x
    /\ x \in prepared
    /\ ~closed(WorldOf("B"))
    /\ other.self.status = "READY"

\* C20: once A has done tpc_begin(x) and tpc_prepare(), B in status READY
\* can call tpc_commit(x): the call sends COMMIT PREPARED for x, the server
\* can accept it and the call then returns; and after such a call x is no
\* longer among the server's prepared transactions and B is still READY.
C20_CommitFromSecondConnection ==
    /\ [](\A x \in Xids :
            PreparedByA(x) =>
               LET r == tpc_commit(WorldOf("B"), x, "COMMAND_OK")
               IN  /\ r.w.sent = << <<"COMMIT PREPARED", x>> >>
                   /\ ServerAccepts(prepared, r.w.sent[1])
                   /\ r.exc = "none"
                   /\ r.w.self.status = "READY")
    /\ [][\A x \in Xids :
            (/\ PreparedByA(x)
             /\ last'.by = "B"
             /\ last'.op = "tpc_commit"
             /\ last'.exc = "none"
             /\ last'.sent = << <<"COMMIT PREPARED", x>> >>)
            => /\ x \notin prepared'
               /\ other'.self.status = "READY"]_vars

\* B has committed the transaction A prepared: the server no longer holds
\* it, B is in READY, and A still stands in PREPARED with the identifier.
C20_Witness ==
    /\ last.by = "B"
    /\ last.op = "tpc_commit"
    /\ last.exc = "none"
    /\ self.status = "PREPARED"
    /\ self._tpc_xid \in Xids
    /\ last.sent = << <<"COMMIT PREPARED", self._tpc_xid>> >>
    /\ self._tpc_xid \notin prepared
    /\ other.self.status = "READY"
    /\ other.self._tpc_xid = None

\* C21: in every reachable state in which a TPC identifier is attached to
\* the connection the status is BEGIN or PREPARED, never READY, whatever
\* public operations were called (set_isolation_level and
\* set_client_encoding among them).
C21_XidOnlyInTransaction ==
    (phase = "open" /\ self._tpc_xid # None)
        => self.status \in {"BEGIN", "PREPARED"}

\* The calls that can end a transaction, and the steps of them that do: the
\* status leaves BEGIN or PREPARED, or a two-phase command for a given
\* identifier was sent and answered.
TransactionCalls ==
    \/ Commit \/ Rollback \/ Reset
    \/ TpcPrepare \/ TpcCommit \/ TpcRollback
    \/ SetIsolationLevel \/ SetClientEncoding

TransactionEnded ==
    \/ self.status \in {"BEGIN", "PREPARED"} /\ self'.status # self.status
    \/ /\ last'.exc = "none"
       /\ \E i \in 1..Len(last'.sent) :
             last'.sent[i][1] \in {"PREPARE TRANSACTION", "COMMIT PREPARED",
                                   "ROLLBACK PREPARED"}

\* C22: no step ever decreases the mark, and every commit, rollback, reset
\* or two-phase prepare/commit/rollback that ends a transaction increases
\* it; a collaborator that recorded the mark therefore reads an equal value
\* only if no transaction has ended since.
C22_MarkMonotonic ==
    [][/\ self'._mark >= self._mark
       /\ (TransactionEnded /\ TransactionCalls)
              => self'._mark > self._mark]_vars

C22_Witness ==
    /\ last.op = "tpc_commit"
    /\ last.exc = "none"
    /\ last.sent = << <<"COMMIT PREPARED", "x1">> >>
    /\ self.status = "READY"
    /\ self._mark = 2

\* C23: after any number n of notices the buffer holds min(n, 50) entries,
\* the most recent ones in arrival order; after 60 notices it holds the
\* notices 11 to 60.
C23_NoticesKeepMostRecent ==
    LET n == Len(notices)
    IN  /\ n = IF arrived < 50 THEN arrived ELSE 50
        /\ \A i \in 1..n : notices[i] = arrived - n + i
        /\ arrived = 60 => notices = [i \in 1..50 |-> 10 + i]

C23_Witness ==
    /\ arrived = 60
    /\ Len(notices) = 50
    /\ notices[1] = 11
    /\ notices[50] = 60

\* C24: when a call has failed and the transport reports the connection as
\* fatally broken, the connection has been closed by the time the caller
\* has the exception: closed reads true and the cancel token and the
\* transport handle have been released.
C24_BrokenTransportIsClosed ==
    (phase = "open" /\ last.exc # "none" /\ pq.status = "CONNECTION_BAD")
        => /\ closed(World)
           /\ self._closed
           /\ self._cancel = NULL
           /\ self._pgconn = None

\* Thread t is inside a command exchange with the server: its libpq call
\* (PQexec of a command or of a SHOW, or the input probe) has begun and has
\* not returned.
Inside(t) ==
    /\ ~Finished(t)
    /\ At(t).k = "leave"
    /\ th.op[t] # "cancel"

\* C25: with several threads on one connection, at no time are two threads
\* both inside a command exchange (the exec of a command, a GUC read, the
\* consume-input/is-busy probe).
C25_DispatchMutuallyExclusive ==
    \A t1 \in Threads, t2 \in Threads :
        (Inside(t1) /\ Inside(t2)) => t1 = t2

C25_Witness ==
    /\ Inside("t1")
    /\ th.owner = "t1"
    /\ ~Finished("t2")
    /\ At("t2").k = "acquire"

\* Thread t is within the bookkeeping of a transaction operation: past its
\* status test and not yet through its status update.
InBookkeeping(t) ==
    /\ th.op[t] \in {"rollback", "begin", "commit"}
    /\ th.pc[t] \notin {"start", "return", "raise"}

Sent(command) ==
    Cardinality({i \in 1..Len(th.sent) : th.sent[i] = command})

\* C26: the test, the command and the status/mark update of one transaction
\* operation are never interleaved with those of another thread: two
\* concurrent rollbacks that return send one ROLLBACK and raise the mark by
\* one, two concurrent implicit begins that return send one BEGIN.
C26_BookkeepingSerialized ==
    /\ \A t1 \in Threads, t2 \in Threads :
          (InBookkeeping(t1) /\ InBookkeeping(t2)) => t1 = t2
    /\ (\A t \in Threads : th.op[t] = "rollback" /\ th.pc[t] = "return")
          => Sent("ROLLBACK") <= 1 /\ self._mark <= 1
    /\ (\A t \in Threads : th.op[t] = "begin" /\ th.pc[t] = "return")
          => Sent("BEGIN") <= 1

\* An asynchronous command is in flight: a consumer is associated, or the
\* command is being written or read.
InFlight ==
    /\ phase = "open"
    /\ \/ self._async_cursor # None
       \/ self._async_status \in {"WRITE", "READ"}

\* The calls that may send a command of their own (poll drives the command
\* in flight, cancel interrupts it, close ends the connection).
CommandCalls ==
    \/ Execute \/ Commit \/ Rollback \/ Reset
    \/ SetSession \/ IsolationLevel \/ SetIsolationLevel \/ SetClientEncoding
    \/ TpcBegin \/ TpcPrepare \/ TpcCommit \/ TpcRollback \/ TpcRecover

\* C27: while an asynchronous command is in flight no call (set_session and
\* the isolation_level read among them) sends a second command: a call
\* that would send one is rejected instead.
C27_OneCommandOutstanding ==
    [][(InFlight /\ CommandCalls) => last'.sent = <<>>]_vars

\* The outcomes of a poll() call whose step reached OK: it returns OK, or it
\* raises from the delivery (the consumer is gone, or its fetch hook failed).
PollReachedOK(l) ==
    /\ l.op = "poll"
    /\ \/ l.exc = "none" /\ l.ret = "POLL_OK"
       \/ l.exc = "InterfaceError"
          /\ l.msg = "the asynchronous cursor has disappeared"
       \/ l.exc = "DatabaseError" /\ l.msg = "_pq_fetch"

\* C28: whenever poll() on an asynchronous connection reaches OK while a
\* consumer is associated, the association is cleared by the time poll()
\* returns or raises: a consumer that is alive gets the result (cleared even
\* if its fetch hook raises), for one that is gone InterfaceError is raised.
C28_PollClearsConsumer ==
    [][(/\ phase = "open"
        /\ self._async
        /\ self.status \in Established
        /\ self._async_cursor # None
        /\ PollReachedOK(last')
        /\ Poll)
          => /\ self'._async_cursor = None
             /\ self._async_cursor = "dead" => last'.exc = "InterfaceError"
             /\ self._async_cursor = "alive" => last'.exc # "InterfaceError"]_vars

\* C29: the result of an asynchronous command is handed to its consumer
\* only in a poll() step that ends with asyncStatus DONE, never in a step
\* that begins in WRITE, and not more than once for one command.
C29_DeliveryAfterDone ==
    /\ [](pq.delivered <= 1)
    /\ [][pq'.delivered > pq.delivered
             => /\ last'.op = "poll"
                /\ self._async_status \in {"READ", "DONE"}
                /\ self'._async_status = "DONE"]_vars

C29_Witness ==
    /\ last.op = "poll"
    /\ last.ret = "POLL_OK"
    /\ pq.delivered = 1
    /\ self._async_status = "DONE"
    /\ self._async_cursor = None

\* No command is outstanding on a READY connection whose transport answers:
\* asyncStatus is DONE and no consumer is associated.
Steady ==
    /\ phase = "open"
    /\ self.status = "READY"
    /\ self._async_status = "DONE"
    /\ self._async_cursor = None
    /\ self._pgconn # None

\* The transport has consumed its input and is not busy.
NotBusy == [NoAnswer EXCEPT !.consume = TRUE, !.busy = 0]

\* C30: poll() on a READY connection with no outstanding command (asyncStatus
\* DONE, no consumer, the transport not busy) reports OK, sends nothing and
\* leaves status, asyncStatus, autocommit, mark, the TPC identifier and
\* closed as they were; a second poll() does the same.
C30_SteadyPoll ==
    Steady =>
        LET r  == poll(World, NotBusy)
            r2 == poll(r.w, NotBusy)
        IN  /\ r.exc = "none" /\ r.ret = "POLL_OK"
            /\ r.w.sent = <<>>
            /\ r.w.self.status = self.status
            /\ r.w.self._async_status = self._async_status
            /\ r.w.self._autocommit = self._autocommit
            /\ r.w.self._mark = self._mark
            /\ r.w.self._tpc_xid = self._tpc_xid
            /\ closed(r.w) = closed(World)
            /\ r.w.self = self
            /\ r2 = r

C30_Witness ==
    /\ Steady
    /\ last.op = "poll"
    /\ last.exc = "none"
    /\ last.ret = "POLL_OK"
    /\ ~self._async
    /\ self._tpc_xid # None

\* The calls the connection turns away in the state w for a precondition on
\* its state, each with every answer the transport could give were it asked:
\* any command call on a closed connection; the synchronous calls on an
\* asynchronous one; commit, rollback and cancel with an identifier
\* attached; set_session, tpc_begin and the two-phase calls for a given
\* identifier outside READY; tpc_prepare and the two-phase calls for the
\* connection's own transaction with no identifier attached.
Rejected(w) ==
    (IF closed(w)
     THEN CommandResults(w) \cup
          { set_client_encoding(w, same, a) :
              same \in BOOLEAN, a \in LevelAnswers } \cup
          { set_isolation_level(w, level, a) :
              level \in 0..4, a \in LevelAnswers }
     ELSE {}) \cup
    (IF w.self._async
     THEN { commit(w, out) : out \in ExecOutcomes } \cup
          { rollback(w, out) : out \in ExecOutcomes } \cup
          { reset(w, out) : out \in ExecOutcomes } \cup
          { set_isolation_level(w, level, a) :
              level \in 0..4, a \in LevelAnswers } \cup
          { set_client_encoding(w, same, a) :
              same \in BOOLEAN, a \in LevelAnswers } \cup
          { tpc_begin(w, xid, out) : xid \in Xids, out \in ExecOutcomes } \cup
          { tpc_prepare(w, out) : out \in ExecOutcomes } \cup
          { tpc_commit(w, xid, out) :
              xid \in Xids \cup {None}, out \in ExecOutcomes } \cup
          { tpc_rollback(w, xid, out) :
              xid \in Xids \cup {None}, out \in ExecOutcomes } \cup
          { tpc_recover(w, out) : out \in ShowOutcomes }
     ELSE {}) \cup
    (IF w.self._tpc_xid # None
     THEN { commit(w, out) : out \in ExecOutcomes } \cup
          { rollback(w, out) : out \in ExecOutcomes } \cup
          { cancel(w, ok) : ok \in BOOLEAN }
     ELSE {}) \cup
    (IF w.self.status # "READY"
     THEN { set_session(w, k.isolation_level, k.readonly, k.deferrable,
                        k.autocommit, outs) :
              k \in SessionCalls, outs \in FirstFailure({1, 2, 3}) } \cup
          { tpc_begin(w, xid, out) : xid \in Xids, out \in ExecOutcomes } \cup
          { tpc_commit(w, xid, out) : xid \in Xids, out \in ExecOutcomes } \cup
          { tpc_rollback(w, xid, out) : xid \in Xids, out \in ExecOutcomes }
     ELSE {}) \cup
    (IF w.self._tpc_xid = None
     THEN { tpc_prepare(w, out) : out \in ExecOutcomes } \cup
          { tpc_commit(w, None, out) : out \in ExecOutcomes } \cup
          { tpc_rollback(w, None, out) : out \in ExecOutcomes }
     ELSE {})

\* C31: a call turned away for a precondition on the connection's state
\* (closed, asynchronous mode, two-phase transaction under way, wrong
\* status, no identifier attached) raises, sends no command and leaves
\* status, asyncStatus, autocommit, mark and the identifier as they were.
C31_RejectedCallsChangeNothing ==
    phase = "open" =>
        \A r \in Rejected(World) :
            /\ r.exc \in {"InterfaceError", "ProgrammingError"}
            /\ r.w.sent = <<>>
            /\ r.w.self.status = self.status
            /\ r.w.self._async_status = self._async_status
            /\ r.w.self._autocommit = self._autocommit
            /\ r.w.self._mark = self._mark
            /\ r.w.self._tpc_xid = self._tpc_xid
            /\ r.w = World

\* rollback was turned away on an asynchronous connection with a command in
\* flight.
C31_Witness ==
    /\ phase = "open"
    /\ ~closed(World)
    /\ self._async
    /\ self._async_status = "READ"
    /\ last.op = "rollback"
    /\ last.exc = "ProgrammingError"
    /\ last.sent = <<>>

\* A step of thread t.
Runs(t) ==
    \/ Test(t) \/ LoadMark(t) \/ StoreMark(t) \/ Assign(t)
    \/ Acquire(t) \/ Release(t) \/ Enter(t) \/ Leave(t)

\* C32: a thread in cancel() is never kept waiting, whoever holds the lock
\* and whatever command is in flight, and no step of cancel() changes the
\* status, asyncStatus, the mark or the consumer of the connection.
C32_CancelNeverWaits ==
    /\ [](\A t \in Threads :
             (th.op[t] = "cancel" /\ ~Finished(t)) => ENABLED Runs(t))
    /\ [][\A t \in Threads :
             (th.op[t] = "cancel" /\ th'.pc[t] # th.pc[t])
                => /\ self'.status = self.status
                   /\ self'._async_status = self._async_status
                   /\ self'._mark = self._mark
                   /\ self'._async_cursor = self._async_cursor
                   /\ th'.owner = th.owner
                   /\ th'.count = th.count]_vars

\* cancel() has returned while the other thread is still inside its command
\* and holds the lock.
C32_Witness ==
    /\ th.op["t2"] = "cancel"
    /\ th.pc["t2"] = "return"
    /\ Inside("t1")
    /\ th.owner = "t1"
    /\ "PQcancel" = th.sent[Len(th.sent)]

\* C33: wait_select returns only after a poll() that reported OK, waits for
\* the socket to be readable after READ and writable after WRITE, raises
\* OperationalError on any other value, and ends whenever poll() answers
\* READ or WRITE only finitely often: with OK if poll() neither raised nor
\* gave another value.
C33_WaitSelect ==
    /\ [](/\ ws.pc = "returned" => ws.state = "POLL_OK"
          /\ ws.pc = "select_read" => ws.state = "POLL_READ"
          /\ ws.pc = "select_write" => ws.state = "POLL_WRITE"
          /\ ws.pc = "raised"
                => \/ ws.state = None /\ ws.exc # "none"
                   \/ /\ ws.state \notin {"POLL_OK", "POLL_READ", "POLL_WRITE"}
                      /\ ws.exc = "OperationalError")
    /\ [][ws'.pc = "returned" /\ ws.pc # "returned"
             => /\ ws.pc = "poll"
                /\ last'.op = "poll"
                /\ last'.exc = "none"
                /\ last'.ret = "POLL_OK"]_vars
    /\ (ws.pc = "poll") ~> (ws.pc \in {"returned", "raised"})

\* wait_select has returned after an asynchronous command went through
\* WRITE and READ with the transport answering "not yet" twice.
C33_Witness ==
    /\ ws.pc = "returned"
    /\ ws.left = 0
    /\ self._async
    /\ self.status = "READY"
    /\ pq.delivered = 1
    /\ last.ret = "POLL_OK"

\* The order of the sub-states of an in-flight command.
AsyncRank == [WRITE |-> 0, READ |-> 1, DONE |-> 2]

\* poll() in an established status moves asyncStatus forward only and leaves
\* the status alone, whatever the transport answers.
PollForwardOnly ==
    \A a \in PollAnswers(self) :
        LET r == poll(World, a)
        IN  /\ AsyncRank[r.w.self._async_status] >= AsyncRank[self._async_status]
            /\ r.w.self._async_status = "WRITE" => self._async_status = "WRITE"
            /\ r.w.self.status = self.status

\* poll() in WRITE follows the transport's answer to the flush.
PollWriteTable ==
    self._async_status = "WRITE" =>
        \A a \in PollAnswers(self) :
            LET r == poll(World, a)
            IN  /\ a.flush = 0 =>
                    /\ r.exc = "none" /\ r.ret = "POLL_READ"
                    /\ r.w.self._async_status = "READ"
                /\ a.flush = 1 =>
                    /\ r.exc = "none" /\ r.ret = "POLL_WRITE"
                    /\ r.w.self._async_status = "WRITE"
                /\ a.flush = -1 =>
                    /\ r.exc = "OperationalError"
                    /\ r.w.self._async_status = "WRITE"

\* The poll() step has a result to hand to a consumer.
Delivers == self._async /\ self._async_cursor # None

\* C34 as stated: in READ a transport that is not busy makes poll() report OK.
C34_PollTable ==
    (phase = "open" /\ self.status \in Established /\ self._pgconn # None) =>
        /\ PollForwardOnly
        /\ PollWriteTable
        /\ self._async_status = "READ" =>
             \A a \in PollAnswers(self) :
                 LET r == poll(World, a)
                 IN  a.consume =>
                       /\ a.busy = 0 =>
                           /\ r.exc = "none" /\ r.ret = "POLL_OK"
                           /\ r.w.self._async_status = "DONE"
                       /\ a.busy = 1 =>
                           /\ r.exc = "none" /\ r.ret = "POLL_READ"
                           /\ r.w.self._async_status = "READ"

\* C34: in READY/BEGIN/PREPARED a poll() step moves asyncStatus only forward
\* along WRITE -> READ -> DONE and never changes the status: in WRITE a full
\* flush moves to READ and reports READ, a flush that would block stays in
\* WRITE and reports WRITE, a failed flush raises; in READ a transport that
\* is not busy moves to DONE and reports OK unless the result goes to a
\* consumer whose delivery raises (InterfaceError for a vanished consumer,
\* the fetch error otherwise), a busy transport stays in READ and reports
\* READ.
C34_PollTableUnlessDeliveryRaises ==
    (phase = "open" /\ self.status \in Established /\ self._pgconn # None) =>
        /\ PollForwardOnly
        /\ PollWriteTable
        /\ self._async_status = "READ" =>
             \A a \in PollAnswers(self) :
                 LET r == poll(World, a)
                 IN  a.consume =>
                       /\ a.busy = 0 =>
                           /\ r.w.self._async_status = "DONE"
                           /\ IF Delivers /\ self._async_cursor = "dead"
                              THEN r.exc = "InterfaceError"
                              ELSE IF Delivers /\ ~a.fetch
                              THEN r.exc = "DatabaseError"
                              ELSE r.exc = "none" /\ r.ret = "POLL_OK"
                       /\ a.busy = 1 =>
                           /\ r.exc = "none" /\ r.ret = "POLL_READ"
                           /\ r.w.self._async_status = "READ"

C34_Witness ==
    /\ phase = "open"
    /\ self.status \in Established
    /\ self._async_status = "DONE"
    /\ last.op = "poll"
    /\ last.exc = "InterfaceError"
    /\ self._pgconn # None

\* The scheduler lets every thread that can take a step take one.
SpecThreadsFair == SpecThreads /\ \A t \in Threads : WF_vars(Runs(t))

AllFinished == \A t \in Threads : Finished(t)

\* The steps of commit() and reset() inside the nested locked section of
\* _execute_command, and those of their own locked section after it.
Nested == {"exec", "result", "unlock", "unlock_exc"}

AfterNested ==
    [commit |-> {"finally", "finally_exc", "end", "end_exc"},
     reset  |-> {"status", "load", "store", "autocommit", "xid", "end",
                 "end_exc"}]

\* What the lock is at each point of each thread's call.
LockBalanced ==
    /\ (th.owner = None) <=> (th.count = 0)
    /\ th.count \in 0..2
    /\ \A t \in Threads :
          /\ Finished(t) => th.owner # t
          /\ (~Finished(t) /\ At(t).k = "release") =>
                 th.owner = t /\ th.count >= 1
          /\ (~Finished(t) /\ At(t).k = "acquire" /\ th.owner \notin {None, t}) =>
                 ~Finished(th.owner)
          /\ (th.op[t] \in {"commit", "reset"} /\ th.pc[t] \in Nested) =>
                 th.owner = t /\ th.count = 2
          /\ (th.op[t] \in {"commit", "reset"}
                /\ th.pc[t] \in AfterNested[th.op[t]]) =>
                 th.owner = t /\ th.count = 1
    /\ AllFinished => th.owner = None /\ th.count = 0

\* C35: the lock is re-entrant and always released: a thread that holds it
\* takes it again in a nested call without waiting, on every way out of a
\* locked section, by return or by exception, the hold count is back at its
\* value on entry, a thread that has finished holds nothing, and so every
\* thread finishes its call: none waits forever for the lock.
C35_LockReentrantAndReleased ==
    /\ []LockBalanced
    /\ [](\A t \in Threads :
             (~Finished(t) /\ At(t).k = "acquire" /\ th.owner = t)
                 => ENABLED Acquire(t))
    /\ <>AllFinished

C35_Witness ==
    /\ AllFinished
    /\ \E t \in Threads :
          /\ th.op[t] = "commit"
          /\ th.pc[t] = "raise"
          /\ \E u \in Threads \ {t} :
                th.op[u] = "reset" /\ th.pc[u] = "return"
    /\ Sent("COMMIT") = 1
    /\ Sent("RESET") = 1

\* C36: in every reachable state status BEGIN implies autocommit off, so a
\* commit() or rollback() in BEGIN is never skipped without a word for
\* autocommit: it sends its command or raises.
C36_BeginExcludesAutocommit ==
    (phase = "open" /\ self.status = "BEGIN") =>
        /\ ~self._autocommit
        /\ \A out \in ExecOutcomes :
              LET c == commit(World, out)
                  r == rollback(World, out)
              IN  /\ c.w.sent = <<>> =>
                        c.exc \in {"InterfaceError", "ProgrammingError"}
                  /\ r.w.sent = <<>> =>
                        r.exc \in {"InterfaceError", "ProgrammingError"}
                  /\ ~closed(World) /\ ~self._async /\ self._tpc_xid = None =>
                        /\ c.w.sent = << <<"COMMIT">> >>
                        /\ r.w.sent = << <<"ROLLBACK">> >>

C36_Witness ==
    /\ phase = "open"
    /\ self.status = "BEGIN"
    /\ ~self._autocommit
    /\ ~closed(World)
    /\ last.op = "set_session"
    /\ last.exc = "ProgrammingError"
    /\ last.sent = <<>>

\* C37: in every reachable state status PREPARED implies that a TPC
\* identifier is attached, and every step that detaches the identifier
\* leaves the status READY.
C37_PreparedHasXid ==
    /\ [](self.status = "PREPARED" => self._tpc_xid # None)
    /\ [][(self._tpc_xid # None /\ self'._tpc_xid = None)
             => /\ self'.status = "READY"
                /\ last'.op \in {"tpc_commit", "tpc_rollback", "reset"}
                /\ last'.exc = "none"]_vars

\* tpc_prepare() has just prepared the transaction of the identifier.
C37_Witness ==
    /\ phase = "open"
    /\ last.op = "tpc_prepare"
    /\ last.exc = "none"
    /\ self.status = "PREPARED"
    /\ self._tpc_xid # None
    /\ ~closed(World)

\* C38: from status BEGIN with autocommit off, a commit() that returns, or
\* that raises because its COMMIT failed, leaves status READY and the mark
\* raised by exactly 1: a failed COMMIT never leaves the status at BEGIN.
C38_CommitEndsBlockEvenOnError ==
    (phase = "open" /\ self.status = "BEGIN" /\ ~self._autocommit) =>
        \A out \in ExecOutcomes :
            LET c == commit(World, out)
            IN  /\ (c.exc = "none" \/ c.w.sent # <<>>) =>
                      /\ c.w.sent = << <<"COMMIT">> >>
                      /\ c.w.self.status = "READY"
                      /\ c.w.self._mark = self._mark + 1
                /\ (c.w.sent # <<>> /\ out # "COMMAND_OK") =>
                      c.exc \notin {"none", "InterfaceError", "ProgrammingError"}
                /\ c.w.sent = <<>> =>
                      /\ c.exc \in {"InterfaceError", "ProgrammingError"}
                      /\ c.w.self = self

\* commit() has raised for a COMMIT the server refused.
C38_Witness ==
    /\ phase = "open"
    /\ last.op = "commit"
    /\ last.exc \notin {"none", "InterfaceError", "ProgrammingError"}
    /\ last.sent = << <<"COMMIT">> >>
    /\ self.status = "READY"
    /\ self._mark = 1
    /\ ~self._autocommit

\* Connection.__del__: the object is collected, after any calls or after a
\* constructor that raised; _close runs whatever the connection is.
__del__(w) == Ok(_close(w))

Del ==
    /\ phase \in {"open", "failed", "deleted"}
    /\ Done("__del__", __del__(World))
    /\ phase' = "deleted"

\* The life of one connection up to its collection.
NextTeardown ==
    \/ Connect
    \/ Poll
    \/ Execute
    \/ Commit
    \/ Close
    \/ Del

SpecTeardown == Init /\ [][NextTeardown]_vars

\* C39: over any sequence of close(), closing while an exception is built
\* and the destructor, the cancel token and the transport handle are each
\* released at most once and only if they were obtained; a release empties
\* the field that stored the handle, so a later _close() releases nothing.
C39_HandlesReleasedOnce ==
    /\ [](/\ pq.tokens <= 1
          /\ pq.freed <= pq.tokens
          /\ pq.finished <= (IF pq.status = "NONE" THEN 0 ELSE 1)
          /\ pq.freed = 1 => self._cancel = NULL
          /\ pq.finished = 1 => self._pgconn = None)
    /\ [][/\ pq'.freed # pq.freed =>
                /\ pq'.freed = pq.freed + 1
                /\ self'._cancel = NULL
          /\ pq'.finished # pq.finished =>
                /\ pq'.finished = pq.finished + 1
                /\ self'._pgconn = None
          /\ (self._closed /\ self._cancel = NULL /\ self._pgconn = None) =>
                /\ pq'.freed = pq.freed
                /\ pq'.finished = pq.finished
                /\ pq'.tokens = pq.tokens]_vars

\* An asynchronous connection collected before its setup asked for the
\* cancel token: the transport handle was released, no token was.
C39_Witness ==
    /\ phase = "deleted"
    /\ last.op = "__del__"
    /\ self._async
    /\ pq.tokens = 0
    /\ pq.freed = 0
    /\ pq.finished = 1
    /\ self._pgconn = None

====
